---------------------------- MODULE Spec2Model ----------------------------
(***************************************************************************)
(* A model of the wifi-display RTP/RTCP sender,                            *)
(* media/libstagefright/wifi-display/source/Sender.cpp.                    *)
(*                                                                         *)
(* The sender is one AHandler: every handler of onMessageReceived and      *)
(* every public method is one action.  The network session manager         *)
(* (ANetworkSession) and the message loop (ALooper/AMessage) are the       *)
(* sender's collaborators; they are modelled by what the sender asks of    *)
(* them: the set of open sessions, the log of send requests, the log of    *)
(* posted notifications and the queue of delayed messages.                 *)
(***************************************************************************)
EXTENDS Integers, Sequences, FiniteSets, TLC

(***************************************************************************)
(* Bounds of the model.                                                    *)
(***************************************************************************)
\* queuePackets calls in one run
MaxBatches == 3
\* TS packets in one batch (a batch is 0..MaxBatchPkts packets of 188 bytes)
MaxBatchPkts == 8
\* presentation timestamps are drawn from 0..MaxTimeUs
MaxTimeUs == 2
\* the wall clock runs over 0..MaxNowUs
MaxNowUs == 2
\* queuePackets calls in one run that also receives RTCP
MaxRetransBatches == 2
\* RTCP datagrams received in one run
MaxDatagrams == 2
\* batches queued in a run that receives RTCP of every kind
MaxRtcpBatches == 2
\* RTCP datagrams of every kind received in one run
MaxRtcpDatagrams == 1
\* scheduleSendSR calls in one run
MaxSRCalls == 3
\* the interval between two sender reports (Sender.h), in clock ticks
kSendSRIntervalUs == 1
\* batches, datagrams, scheduleSendSR calls and error reports of a run
\* that sends on every path
MaxSendBatches == 1
MaxSendDatagrams == 1
MaxSendSRCalls == 1
MaxSendErrors == 1
\* failed iterations of init's port scan
MaxBindFailures == 1
\* port pairs that the network lets init's port scan try
MaxScannedPairs == 3
\* error reports handled in one run
MaxErrors == 3
\* length of the retransmission history (Sender.h sets the build's value;
\* the model keeps it small so that eviction happens)
kMaxHistoryLength == 3

(***************************************************************************)
(* Program constants.                                                      *)
(***************************************************************************)
kMaxRTPPacketSize == 1500
kMaxNumTSPacketsPerRTPPacket == (kMaxRTPPacketSize - 12) \div 188
\* new ABuffer(12 + kMaxNumTSPacketsPerRTPPacket * 188)
TSQueueCapacity == 12 + kMaxNumTSPacketsPerRTPPacket * 188

\* uint16_t arithmetic.  The uint32_t counters (mRTPSeqNo, mNumRTPSent,
\* mNumRTPOctetsSent, mRTPRetransmissionSeqNo) stay far below 2^32 in every
\* run of the model and are plain integers; only their low 16 bits reach
\* the wire, through HiByte and LoByte.
W16 == 2^16

VARIABLES
    \* ---- build and configuration
    ENABLE_RETRANSMISSION,      \* the build flag of Sender.h
    mTransportMode,
    mRTPChannel,
    mRTCPChannel,
    mRTPPort,
    mClientRTPPort,
    mClientRTCPPort,
    \* ---- sessions
    mRTPSessionID,
    mRTCPSessionID,
    mRTPRetransmissionSessionID,
    mRTCPRetransmissionSessionID,
    mRTPConnected,
    mRTCPConnected,
    \* ---- pacing
    mFirstOutputBufferReadyTimeUs,
    mFirstOutputBufferSentTimeUs,
    \* ---- packetizer
    mTSQueue,                   \* the accumulation buffer (an ABuffer)
    mRTPSeqNo,
    mNumRTPSent,
    mNumRTPOctetsSent,
    mHistory,                   \* List<sp<ABuffer> >, oldest first
    mHistoryLength,
    mRTPRetransmissionSeqNo,
    \* ---- the collaborators
    nowUs,                      \* ALooper::GetNowUs()
    eventQueue,                 \* ALooper's queue of delayed messages
    sessions,                   \* ANetworkSession: open session id -> channel
    nextSessionID,              \* ANetworkSession::mNextSessionID
    netLog,                     \* ANetworkSession: create/destroy/send requests
    notifyLog,                  \* notifications posted on mNotify
    \* ---- the run so far (history variables)
    phase,                      \* which of init/finishInit/~Sender were called,
                                \* where init's port scan stands, what init
                                \* returned, the packets flushed before the run
    crashed,                    \* a CHECK failed (the process aborted)
    calls,                      \* the queuePackets calls made
    flushLog,                   \* one entry per appendTSData call
    rtcpLog,                    \* one entry per received RTCP datagram
    errLog,                     \* one entry per error a session reported
    \* ---- sender reports
    mSendSRPending,
    mNumSRsSent,
    srLog                       \* one entry per scheduleSendSR call and
                                \* per kWhatSendSR message handled

cfgVars == <<ENABLE_RETRANSMISSION, mTransportMode, mRTPChannel, mRTCPChannel,
             mRTPPort, mClientRTPPort, mClientRTCPPort>>
sessVars == <<mRTPSessionID, mRTCPSessionID, mRTPRetransmissionSessionID,
              mRTCPRetransmissionSessionID>>
connVars == <<mRTPConnected, mRTCPConnected>>
paceVars == <<mFirstOutputBufferReadyTimeUs, mFirstOutputBufferSentTimeUs>>
pktVars == <<mTSQueue, mRTPSeqNo, mNumRTPSent, mNumRTPOctetsSent, mHistory,
             mHistoryLength>>
netVars == <<sessions, nextSessionID>>
srVars == <<mSendSRPending, mNumSRsSent, srLog>>
vars == <<cfgVars, sessVars, connVars, paceVars, pktVars,
          mRTPRetransmissionSeqNo, nowUs, eventQueue, netVars, netLog,
          notifyLog, phase, crashed, calls, flushLog, rtcpLog, errLog,
          srVars>>

(***************************************************************************)
(* Values.                                                                 *)
(***************************************************************************)
TRANSPORT_UDP == "TRANSPORT_UDP"
TRANSPORT_TCP_INTERLEAVED == "TRANSPORT_TCP_INTERLEAVED"
TRANSPORT_TCP == "TRANSPORT_TCP"

OK == "OK"
UNKNOWN_ERROR == "UNKNOWN_ERROR"
ERROR_MALFORMED == "ERROR_MALFORMED"
ERROR_UNSUPPORTED == "ERROR_UNSUPPORTED"

kWhatRTPNotify == "kWhatRTPNotify"
kWhatRTCPNotify == "kWhatRTCPNotify"
kWhatRTPRetransmissionNotify == "kWhatRTPRetransmissionNotify"
kWhatRTCPRetransmissionNotify == "kWhatRTCPRetransmissionNotify"

kWhatInitDone == "kWhatInitDone"
kWhatSessionDead == "kWhatSessionDead"
kWhatBinaryData == "kWhatBinaryData"

Max(a, b) == IF a >= b THEN a ELSE b

\* new ABuffer(12 + kMaxNumTSPacketsPerRTPPacket * 188).  id names the
\* storage; ts is the TS packets held in the range after the 12 header
\* bytes; b2, b3 are header bytes 2 and 3; int32Data is ABuffer's tag (0 when
\* constructed).
NewABuffer(id) ==
    [id |-> id, capacity |-> TSQueueCapacity, size |-> TSQueueCapacity,
     ts |-> <<>>, int32Data |-> 0, b2 |-> 0, b3 |-> 0, marker |-> FALSE]

\* mTSQueue->setRange(0, 12): the range is the header only
SetRangeHeaderOnly(buf) == [buf EXCEPT !.size = 12, !.ts = <<>>]

\* rtp[2] = (mRTPSeqNo >> 8) & 0xff
HiByte(n) == (n \div 256) % 256
\* rtp[3] = mRTPSeqNo & 0xff
LoByte(n) == n % 256
\* the 16-bit big-endian number a receiver reads from two header bytes
U16(hi, lo) == hi * 256 + lo


(***************************************************************************)
(* Sender::sendPacket and the notifications.                               *)
(***************************************************************************)
\* Sender::sendPacket: mNetSession->sendRequest(sessionID, data, size)
sendPacket(log, sessionID, pkt) ==
    Append(log, [op |-> "sendRequest", sessionID |-> sessionID, pkt |-> pkt])

\* a notification that carries no channel of its own
notifyBinaryData_ChannelZero(log, channel, pkt) ==
    Append(log, [what |-> kWhatBinaryData, channel |-> 0, data |-> pkt])

\* notify->setInt32("what", kWhatBinaryData); "channel"; "data"; post()
notifyBinaryData(log, channel, pkt) ==
    Append(log, [what |-> kWhatBinaryData, channel |-> channel, data |-> pkt])

\* Sender::notifyInitDone
notifyInitDone(log) == Append(log, [what |-> kWhatInitDone])

\* Sender::notifySessionDead
notifySessionDead(log) == Append(log, [what |-> kWhatSessionDead])

(***************************************************************************)
(* The packetizer: Sender::appendTSData.                                   *)
(*                                                                         *)
(* appendTSData is called in a loop by onQueuePackets, so it is an         *)
(* operator on the part of the state it reads and writes:                  *)
(*   st.q mTSQueue, st.seq mRTPSeqNo, st.sent mNumRTPSent,                 *)
(*   st.octets mNumRTPOctetsSent, st.hist mHistory,                        *)
(*   st.histLen mHistoryLength, st.net netLog, st.notify notifyLog,        *)
(*   st.flog flushLog, st.crashed crashed.                                 *)
(***************************************************************************)
PacketizerState ==
    [q |-> mTSQueue, seq |-> mRTPSeqNo, sent |-> mNumRTPSent,
     octets |-> mNumRTPOctetsSent, hist |-> mHistory,
     histLen |-> mHistoryLength, net |-> netLog, notify |-> notifyLog,
     flog |-> flushLog, crashed |-> crashed]

\* a counter that starts over at every 256th packet
NextSeqNo_EightBits(seq) == (seq + 1) % 256

\* ++mRTPSeqNo
NextSeqNo(seq) == seq + 1

\* a flush that forgets the caller's flag
ShouldFlush_OnlyWhenFull(q, flush) == q.size = q.capacity

\* a flush that forgets the capacity
ShouldFlush_OnlyOnFlag(q, flush) == flush

\* the condition of the flush: flush || size == capacity
ShouldFlush(q, flush) == flush \/ q.size = q.capacity

\* the RTP packet in mTSQueue once its header is stamped: bytes 2-3, the
\* M bit, the payload and the size handed to the transport
StampedPacket(q, seq, timeDiscontinuity) ==
    [fmt |-> "RTP", b2 |-> HiByte(seq), b3 |-> LoByte(seq),
     marker |-> timeDiscontinuity, ts |-> q.ts, size |-> q.size]

\* an eviction one flush early: >= for >
HistoryAfterFlush_EvictsEarly(hist, histLen, q, newId) ==
    LET pushed == Append(hist, q)
        len1 == histLen + 1
    IN  IF len1 >= kMaxHistoryLength
        THEN [q |-> Head(pushed), hist |-> Tail(pushed), histLen |-> len1 - 1]
        ELSE [q |-> NewABuffer(newId), hist |-> pushed, histLen |-> len1]

\* #if ENABLE_RETRANSMISSION: the flushed buffer goes to the history; the
\* next accumulation buffer is the evicted oldest entry or a new buffer
HistoryAfterFlush(hist, histLen, q, newId) ==
    LET pushed == Append(hist, q)
        len1 == histLen + 1
    IN  IF len1 > kMaxHistoryLength
        THEN [q |-> Head(pushed), hist |-> Tail(pushed), histLen |-> len1 - 1]
        ELSE [q |-> NewABuffer(newId), hist |-> pushed, histLen |-> len1]

\* the flush branch of appendTSData; q holds the appended packet
FlushTSQueue(st, q, timeDiscontinuity) ==
    LET pkt == StampedPacket(q, st.seq, timeDiscontinuity)
        seq1 == NextSeqNo(st.seq)
        sent1 == st.sent + 1
        octets1 == st.octets + (q.size - 12)
        interleaved == mTransportMode = TRANSPORT_TCP_INTERLEAVED
        net1 == IF interleaved THEN st.net
                ELSE sendPacket(st.net, mRTPSessionID, pkt)
        notify1 == IF interleaved
                   THEN notifyBinaryData(st.notify, mRTPChannel, pkt)
                   ELSE st.notify
        \* mTSQueue->setInt32Data(mRTPSeqNo - 1)
        tagged == [q EXCEPT !.b2 = pkt.b2, !.b3 = pkt.b3,
                            !.marker = timeDiscontinuity,
                            !.int32Data = seq1 - 1]
        h == IF ENABLE_RETRANSMISSION
             THEN HistoryAfterFlush(st.hist, st.histLen, tagged, sent1)
             ELSE [q |-> [q EXCEPT !.b2 = pkt.b2, !.b3 = pkt.b3,
                                   !.marker = timeDiscontinuity],
                   hist |-> st.hist, histLen |-> st.histLen]
    IN  [st EXCEPT !.q = SetRangeHeaderOnly(h.q), !.seq = seq1,
                   !.sent = sent1, !.octets = octets1, !.hist = h.hist,
                   !.histLen = h.histLen, !.net = net1, !.notify = notify1]

\* the RTP packets emitted so far, over either transport
NumEmitted(st) ==
    Cardinality({i \in 1..Len(st.net) :
                    st.net[i].op = "sendRequest" /\ st.net[i].pkt.fmt = "RTP"})
    + Cardinality({i \in 1..Len(st.notify) :
                      st.notify[i].what = kWhatBinaryData})

\* Sender::appendTSData(data, size, timeDiscontinuity, flush)
appendTSData(st, data, size, timeDiscontinuity, flush) ==
    IF st.crashed THEN st
    ELSE IF size # 188 THEN [st EXCEPT !.crashed = TRUE]
    ELSE IF st.q.size + size > st.q.capacity THEN [st EXCEPT !.crashed = TRUE]
    ELSE
        LET q1 == [st.q EXCEPT !.ts = Append(@, data), !.size = @ + size]
            st1 == IF ShouldFlush(q1, flush)
                   THEN FlushTSQueue(st, q1, timeDiscontinuity)
                   ELSE [st EXCEPT !.q = q1]
        IN  [st1 EXCEPT !.flog = Append(@,
                [flush |-> flush, sizeAppended |-> q1.size,
                 emitted |-> NumEmitted(st1) - NumEmitted(st),
                 sizeAfter |-> st1.q.size,
                 queue |-> st.q.id, queueAfter |-> st1.q.id,
                 history |-> [i \in 1..Len(st.hist) |-> st.hist[i].id],
                 historyAfter |->
                     [i \in 1..Len(st1.hist) |-> st1.hist[i].id]])]

\* the loop of Sender::onQueuePackets over packets->data(), from offset
RECURSIVE onQueuePacketsFrom(_, _, _)
onQueuePacketsFrom(st, packets, offset) ==
    IF offset < packets.size
    THEN LET lastTSPacket == offset + 188 >= packets.size
         IN  onQueuePacketsFrom(
                 appendTSData(st, <<packets.id, offset \div 188>>, 188,
                              TRUE, lastTSPacket),
                 packets, offset + 188)
    ELSE st


(***************************************************************************)
(* The message loop.  AMessage::post(delayUs) hands the message to         *)
(* ALooper, which keeps its queue ordered by due time, a new message       *)
(* behind the queued ones that are due no later, and delivers the head     *)
(* once it is due.                                                         *)
(***************************************************************************)
RECURSIVE InsertByDue(_, _)
InsertByDue(queue, msg) ==
    IF queue = <<>> THEN <<msg>>
    ELSE IF Head(queue).whenUs <= msg.whenUs
         THEN <<Head(queue)>> \o InsertByDue(Tail(queue), msg)
         ELSE <<msg>> \o queue

\* msg->post(delayUs)
ALooperPost(queue, what, packets, delayUs) ==
    InsertByDue(queue, [what |-> what, packets |-> packets,
                        whenUs |-> nowUs + (IF delayUs > 0 THEN delayUs ELSE 0)])

\* the wall clock advances
Tick ==
    /\ ~crashed
    /\ nowUs < MaxNowUs
    /\ nowUs' = nowUs + 1
    /\ UNCHANGED <<cfgVars, sessVars, connVars, paceVars, pktVars,
                   mRTPRetransmissionSeqNo, eventQueue, netVars, netLog,
                   notifyLog, phase, crashed, calls, flushLog, rtcpLog, errLog>>
    /\ UNCHANGED <<errLog, srVars>>

(***************************************************************************)
(* Sender::queuePackets(timeUs, packets).                                  *)
(***************************************************************************)
\* a send time counted from the call instead of from the anchor
WhenUs_FromNow(timeUs) == (timeUs - mFirstOutputBufferReadyTimeUs) + nowUs

\* whenUs of a call that is not the first
WhenUs(timeUs) ==
    (timeUs - mFirstOutputBufferReadyTimeUs) + mFirstOutputBufferSentTimeUs

\* the test that makes a call the anchoring one
IsFirstOutputBuffer == mFirstOutputBufferReadyTimeUs < 0

queuePackets(timeUs, size) ==
    /\ ~crashed
    /\ phase.init /\ ~phase.destroyed
    /\ Len(calls) < MaxBatches
    /\ LET first == IsFirstOutputBuffer
           whenUs == IF first THEN nowUs ELSE WhenUs(timeUs)
           delayUs == IF first THEN 0 ELSE whenUs - nowUs
           packets == [id |-> Len(calls) + 1, size |-> size]
       IN  /\ mFirstOutputBufferReadyTimeUs' =
                  IF first THEN timeUs ELSE mFirstOutputBufferReadyTimeUs
           /\ mFirstOutputBufferSentTimeUs' =
                  IF first THEN nowUs ELSE mFirstOutputBufferSentTimeUs
           /\ eventQueue' = ALooperPost(eventQueue, "kWhatQueuePackets",
                                        packets, delayUs)
           /\ calls' = Append(calls, [id |-> packets.id, timeUs |-> timeUs,
                                      size |-> size, atUs |-> nowUs,
                                      postedDelayUs |->
                                          IF delayUs > 0 THEN delayUs ELSE 0])
    /\ UNCHANGED <<cfgVars, sessVars, connVars, pktVars,
                   mRTPRetransmissionSeqNo, nowUs, netVars, netLog, notifyLog,
                   phase, crashed, flushLog, rtcpLog>>
    /\ UNCHANGED <<errLog, srVars>>

(***************************************************************************)
(* onMessageReceived, kWhatQueuePackets: Sender::onQueuePackets.           *)
(***************************************************************************)
onQueuePackets ==
    /\ ~crashed /\ ~phase.destroyed
    /\ eventQueue # <<>>
    /\ Head(eventQueue).what = "kWhatQueuePackets"
    /\ Head(eventQueue).whenUs <= nowUs
    /\ LET packets == Head(eventQueue).packets
           st == onQueuePacketsFrom(PacketizerState, packets, 0)
       IN  /\ mTSQueue' = st.q
           /\ mRTPSeqNo' = st.seq
           /\ mNumRTPSent' = st.sent
           /\ mNumRTPOctetsSent' = st.octets
           /\ mHistory' = st.hist
           /\ mHistoryLength' = st.histLen
           /\ netLog' = st.net
           /\ notifyLog' = st.notify
           /\ flushLog' = st.flog
           /\ crashed' = st.crashed
    /\ eventQueue' = Tail(eventQueue)
    /\ UNCHANGED <<cfgVars, sessVars, connVars, paceVars,
                   mRTPRetransmissionSeqNo, nowUs, netVars, phase, calls,
                   rtcpLog>>
    /\ UNCHANGED <<errLog, srVars>>


(***************************************************************************)
(* The network session manager, as the sender uses it.  ns is              *)
(* [sessions, nextID, net]: the open sessions, the next session id and     *)
(* the log of requests.  Whether a bind succeeds is the network's choice.  *)
(***************************************************************************)
\* createUDPSession / createTCPDatagramSession(localPort, ..., notify, &id)
createSession(ns, kind, localPort, what, succeeds) ==
    IF succeeds
    THEN [sessions |-> ns.sessions \cup
                         {[id |-> ns.nextID, what |-> what, kind |-> kind,
                           localPort |-> localPort, connected |-> FALSE]},
          nextID |-> ns.nextID + 1,
          net |-> Append(ns.net, [op |-> "createSession", kind |-> kind,
                                  localPort |-> localPort,
                                  sessionID |-> ns.nextID])]
    ELSE [ns EXCEPT !.net = Append(@, [op |-> "createFailed", kind |-> kind,
                                       localPort |-> localPort])]

\* mNetSession->destroySession(sessionID)
destroySession(ns, sessionID) ==
    [ns EXCEPT !.sessions = {x \in @ : x.id # sessionID},
               !.net = Append(@, [op |-> "destroySession",
                                  sessionID |-> sessionID])]

IsOpen(sessionID) == \E x \in sessions : x.id = sessionID

(***************************************************************************)
(* Sender::init.  plan is what the network answers in the successive       *)
(* iterations of the port scan: the bind that fails in each iteration      *)
(* that fails; the iteration after the plan succeeds.                      *)
(***************************************************************************)
kFirstServerRtpPort == 15550
kTCPServerRtpPort == 20000
\* Sender.h; only the distinctness of the four ports matters here
kRetransmissionPortOffset == 120

\* createUDPSession if mTransportMode == TRANSPORT_UDP, else
\* createTCPDatagramSession
SessionKind(transportMode) ==
    IF transportMode = TRANSPORT_UDP THEN "UDP" ELSE "TCPDatagram"

\* one iteration of for (serverRtp = 15550;; serverRtp += 2); r.done says
\* the loop was left (break, or a failed CHECK)
initIteration(r, serverRtp, outcome, clientRtcp, transportMode) ==
    LET a == createSession(r.ns, SessionKind(transportMode), serverRtp, kWhatRTPNotify,
                           outcome # "failRTP")
        rtpSession == r.ns.nextID
    IN  IF outcome = "failRTP" THEN [r EXCEPT !.ns = a]
        ELSE
        LET b == IF clientRtcp >= 0
                 THEN createSession(a, SessionKind(transportMode), serverRtp + 1,
                                    kWhatRTCPNotify, outcome # "failRTCP")
                 ELSE a
            rtcpSession == IF clientRtcp >= 0 THEN a.nextID ELSE 0
        IN  IF clientRtcp >= 0 /\ outcome = "failRTCP"
            THEN [r EXCEPT !.ns = destroySession(b, rtpSession)]
            ELSE IF ~(ENABLE_RETRANSMISSION /\ transportMode = TRANSPORT_UDP)
            THEN [r EXCEPT !.ns = b, !.done = TRUE, !.port = serverRtp,
                           !.rtp = rtpSession, !.rtcp = rtcpSession]
            ELSE
            LET c == createSession(b, "UDP", serverRtp + kRetransmissionPortOffset,
                                   kWhatRTPRetransmissionNotify,
                                   outcome # "failRTPRetrans")
                rtpRetransmissionSession == b.nextID
            IN  IF outcome = "failRTPRetrans"
                THEN [r EXCEPT !.ns = destroySession(
                                   destroySession(c, rtcpSession), rtpSession)]
                ELSE IF ~(clientRtcp >= 0)
                \* CHECK_GE(clientRtcp, 0)
                THEN [r EXCEPT !.ns = c, !.done = TRUE, !.crashed = TRUE]
                ELSE
                LET d == createSession(c, "UDP", serverRtp + 1 + kRetransmissionPortOffset,
                                       kWhatRTCPRetransmissionNotify,
                                       outcome # "failRTCPRetrans")
                    rtcpRetransmissionSession == c.nextID
                IN  IF outcome = "failRTCPRetrans"
                    THEN [r EXCEPT !.ns = destroySession(destroySession(
                                       destroySession(
                                           d, rtpRetransmissionSession),
                                       rtcpSession), rtpSession)]
                    ELSE [r EXCEPT !.ns = d, !.done = TRUE,
                                   !.port = serverRtp, !.rtp = rtpSession,
                                   !.rtcp = rtcpSession,
                                   !.rtpRe = rtpRetransmissionSession,
                                   !.rtcpRe = rtcpRetransmissionSession]

RECURSIVE initLoop(_, _, _, _, _)
initLoop(r, serverRtp, plan, clientRtcp, transportMode) ==
    IF r.done THEN r
    ELSE initLoop(initIteration(r, serverRtp,
                                IF plan = <<>> THEN "ok" ELSE Head(plan),
                                clientRtcp, transportMode),
                  serverRtp + 2,
                  IF plan = <<>> THEN <<>> ELSE Tail(plan), clientRtcp,
                  transportMode)

\* a bind can only fail where the iteration attempts it
PlanApplicable(plan, transportMode, clientRtcp) ==
    \A i \in 1..Len(plan) :
        /\ plan[i] = "failRTCP" => clientRtcp >= 0
        /\ plan[i] = "failRTPRetrans" =>
               ENABLE_RETRANSMISSION /\ transportMode = TRANSPORT_UDP
        /\ plan[i] = "failRTCPRetrans" =>
               /\ ENABLE_RETRANSMISSION /\ transportMode = TRANSPORT_UDP
               /\ clientRtcp >= 0

\* what init returns once the loop is left: nothing if a CHECK failed,
\* else UNKNOWN_ERROR if (mRTPPort == 0), else OK
InitStatus(r) ==
    IF r.crashed THEN "none"
    ELSE IF r.port = 0 THEN UNKNOWN_ERROR ELSE OK

\* the scan starts from the sender's handles and the network as it is
ScanStart ==
    [ns |-> [sessions |-> sessions, nextID |-> nextSessionID,
             net |-> netLog],
     done |-> FALSE, crashed |-> FALSE, port |-> mRTPPort,
     rtp |-> mRTPSessionID, rtcp |-> mRTCPSessionID,
     rtpRe |-> mRTPRetransmissionSessionID,
     rtcpRe |-> mRTCPRetransmissionSessionID]

init(clientRtp, clientRtcp, transportMode, plan) ==
    /\ ~crashed
    /\ ~phase.init /\ ~phase.scanning /\ ~phase.destroyed
    /\ mTransportMode' = transportMode
    /\ IF transportMode = TRANSPORT_TCP_INTERLEAVED
       THEN /\ plan = <<>>
            /\ mRTPChannel' = clientRtp
            /\ mRTCPChannel' = clientRtcp
            /\ mRTPPort' = 0
            /\ mRTPSessionID' = 0
            /\ mRTCPSessionID' = 0
            /\ phase' = [phase EXCEPT !.init = TRUE, !.initErr = OK]
            /\ UNCHANGED <<mClientRTPPort, mClientRTCPPort,
                           mRTPRetransmissionSessionID,
                           mRTCPRetransmissionSessionID, netVars, netLog,
                           crashed>>
       ELSE IF transportMode = TRANSPORT_TCP
       THEN /\ plan = <<>>
            /\ mRTPChannel' = 0
            /\ mRTCPChannel' = 0
            /\ mRTPPort' = kTCPServerRtpPort
            /\ mRTPSessionID' = 0
            /\ mRTCPSessionID' = 0
            /\ mClientRTPPort' = clientRtp
            /\ mClientRTCPPort' = clientRtcp
            /\ phase' = [phase EXCEPT !.init = TRUE, !.initErr = OK]
            /\ UNCHANGED <<mRTPRetransmissionSessionID,
                           mRTCPRetransmissionSessionID, netVars, netLog,
                           crashed>>
       ELSE /\ PlanApplicable(plan, transportMode, clientRtcp)
            /\ LET r == initLoop(ScanStart, kFirstServerRtpPort, plan,
                                 clientRtcp, transportMode)
               IN  /\ mRTPChannel' = 0
                   /\ mRTCPChannel' = 0
                   /\ mRTPPort' = r.port
                   /\ mRTPSessionID' = r.rtp
                   /\ mRTCPSessionID' = r.rtcp
                   /\ mRTPRetransmissionSessionID' = r.rtpRe
                   /\ mRTCPRetransmissionSessionID' = r.rtcpRe
                   /\ sessions' = r.ns.sessions
                   /\ nextSessionID' = r.ns.nextID
                   /\ netLog' = r.ns.net
                   /\ crashed' = r.crashed
                   /\ phase' = [phase EXCEPT !.init = TRUE,
                                             !.initErr = InitStatus(r)]
            /\ UNCHANGED <<mClientRTPPort, mClientRTCPPort>>
    /\ UNCHANGED <<ENABLE_RETRANSMISSION, connVars, paceVars, pktVars,
                   mRTPRetransmissionSeqNo, nowUs, eventQueue, notifyLog,
                   calls, flushLog, rtcpLog>>
    /\ UNCHANGED <<errLog, srVars>>

(***************************************************************************)
(* Sender::init in TRANSPORT_UDP, one iteration of the port scan at a      *)
(* time, for the scans that the network does not let end.  The first       *)
(* MaxScannedPairs iterations are kept exactly.  The loop has no last      *)
(* port, so it goes on after them: of these later iterations, which the    *)
(* network refuses like the ones before, only whether their number is      *)
(* even or odd is kept, and their requests are not logged.                 *)
(***************************************************************************)
LastScannedRtpPort == kFirstServerRtpPort + 2 * MaxScannedPairs

\* init down to the for loop
initBegin(clientRtp, clientRtcp) ==
    /\ ~crashed
    /\ ~phase.init /\ ~phase.scanning /\ ~phase.destroyed
    /\ mTransportMode' = TRANSPORT_UDP
    /\ mRTPChannel' = 0
    /\ mRTCPChannel' = 0
    /\ phase' = [phase EXCEPT !.scanning = TRUE,
                              !.serverRtp = kFirstServerRtpPort,
                              !.clientRtcp = clientRtcp]
    /\ UNCHANGED <<ENABLE_RETRANSMISSION, mRTPPort, mClientRTPPort,
                   mClientRTCPPort, sessVars, connVars, paceVars, pktVars,
                   mRTPRetransmissionSeqNo, nowUs, eventQueue, netVars,
                   netLog, notifyLog, crashed, calls, flushLog, rtcpLog,
                   errLog, srVars>>

\* one iteration of the for loop; after a break, the rest of init
initScan(outcome) ==
    /\ ~crashed
    /\ phase.scanning
    /\ phase.serverRtp >= LastScannedRtpPort => outcome = "failRTP"
    /\ PlanApplicable(<<outcome>>, mTransportMode, phase.clientRtcp)
    /\ LET r == initIteration(ScanStart, phase.serverRtp, outcome,
                              phase.clientRtcp, mTransportMode)
       IN  /\ mRTPPort' = r.port
           /\ mRTPSessionID' = r.rtp
           /\ mRTCPSessionID' = r.rtcp
           /\ mRTPRetransmissionSessionID' = r.rtpRe
           /\ mRTCPRetransmissionSessionID' = r.rtcpRe
           /\ sessions' = r.ns.sessions
           /\ nextSessionID' = r.ns.nextID
           /\ netLog' = IF phase.serverRtp >= LastScannedRtpPort
                        THEN netLog ELSE r.ns.net
           /\ crashed' = r.crashed
           /\ phase' = IF r.done
                       THEN [phase EXCEPT !.scanning = FALSE, !.init = TRUE,
                                          !.initErr = InitStatus(r)]
                       ELSE [phase EXCEPT !.serverRtp =
                                IF @ > LastScannedRtpPort
                                THEN LastScannedRtpPort ELSE @ + 2]
    /\ UNCHANGED <<ENABLE_RETRANSMISSION, mTransportMode, mRTPChannel,
                   mRTCPChannel, mClientRTPPort, mClientRTCPPort, connVars,
                   paceVars, pktVars, mRTPRetransmissionSeqNo, nowUs,
                   eventQueue, notifyLog, calls, flushLog, rtcpLog, errLog,
                   srVars>>

(***************************************************************************)
(* Sender::finishInit.  outcome is the network's answer to the binds.      *)
(***************************************************************************)
finishInit(outcome) ==
    /\ ~crashed
    /\ phase.init /\ ~phase.finishInit /\ ~phase.destroyed
    /\ IF mTransportMode # TRANSPORT_TCP
       THEN /\ outcome = "ok"
            /\ notifyLog' = notifyInitDone(notifyLog)
            /\ UNCHANGED <<sessVars, netVars, netLog>>
       ELSE /\ outcome = "failRTCP" => mClientRTCPPort >= 0
            /\ LET ns0 == [sessions |-> sessions, nextID |-> nextSessionID,
                           net |-> netLog]
                   a == createSession(ns0, "TCPDatagram", mRTPPort,
                                      kWhatRTPNotify, outcome # "failRTP")
                   b == IF outcome # "failRTP" /\ mClientRTCPPort >= 0
                        THEN createSession(a, "TCPDatagram", mRTPPort + 1,
                                           kWhatRTCPNotify,
                                           outcome # "failRTCP")
                        ELSE a
               IN  /\ mRTPSessionID' = IF outcome # "failRTP"
                                       THEN ns0.nextID ELSE mRTPSessionID
                   /\ mRTCPSessionID' =
                          IF outcome = "ok" /\ mClientRTCPPort >= 0
                          THEN a.nextID ELSE mRTCPSessionID
                   /\ sessions' = b.sessions
                   /\ nextSessionID' = b.nextID
                   /\ netLog' = b.net
            /\ UNCHANGED <<mRTPRetransmissionSessionID,
                           mRTCPRetransmissionSessionID, notifyLog>>
    /\ phase' = [phase EXCEPT !.finishInit = TRUE]
    /\ UNCHANGED <<cfgVars, connVars, paceVars, pktVars,
                   mRTPRetransmissionSeqNo, nowUs, eventQueue, crashed, calls,
                   flushLog, rtcpLog>>
    /\ UNCHANGED <<errLog, srVars>>


(***************************************************************************)
(* RTCP.  A received buffer is its sequence of bytes; offsets count from   *)
(* 0 as in the code.  A read past the end of the received buffer yields    *)
(* junk, a byte the run chooses.                                           *)
(***************************************************************************)
\* Sender.h: kSourceID = 0xdeadbeef, as its two 16-bit halves
kSourceID == <<57005, 48879>>

ByteAt(buffer, i, junk) == IF i < Len(buffer) THEN buffer[i + 1] ELSE junk

\* U16_AT(&data[i])
U16_AT(buffer, i, junk) ==
    ByteAt(buffer, i, junk) * 256 + ByteAt(buffer, i + 1, junk)

\* U32_AT(&data[i]), as its two 16-bit halves
U32_AT(buffer, i, junk) ==
    <<U16_AT(buffer, i, junk), U16_AT(buffer, i + 2, junk)>>

\* blp & (1 << i)
Bit(n, i) == (n \div 2^i) % 2 = 1

\* bit i taken to ask for seqNo + i
BlpSeqNo_FromBase(seqNo, i) == (seqNo + i) % W16

\* the sequence number a bit of the bitmask asks for: (seqNo + i + 1) & 0xffff
BlpSeqNo(seqNo, i) == (seqNo + i + 1) % W16

\* for (i = 0; i < 16; ++i): the bits of blp that ask for bufferSeqNo are
\* cleared, and retransmit is set if there is one
RECURSIVE MatchBlp(_, _, _, _)
MatchBlp(blp, seqNo, bufferSeqNo, i) ==
    IF i >= 16 THEN [blp |-> blp, retransmit |-> FALSE]
    ELSE LET hit == Bit(blp, i) /\ bufferSeqNo = BlpSeqNo(seqNo, i)
             rest == MatchBlp(IF hit THEN blp - 2^i ELSE blp, seqNo,
                              bufferSeqNo, i + 1)
         IN  [blp |-> rest.blp, retransmit |-> hit \/ rest.retransmit]

\* the retransmission packet built from a history buffer: the original
\* header with bytes 2-3 replaced by the retransmission counter, the
\* original sequence number in bytes 12-13, then the original payload
RetransRTP(buffer, bufferSeqNo, rseq) ==
    [fmt |-> "RTPRetransmission", b2 |-> HiByte(rseq), b3 |-> LoByte(rseq),
     marker |-> buffer.marker,
     b12 |-> HiByte(bufferSeqNo), b13 |-> LoByte(bufferSeqNo),
     ts |-> buffer.ts, size |-> 2 + buffer.size]

\* while (it != mHistory.end()): st is [rseq, net], the retransmission
\* counter and the request log
RECURSIVE ScanHistory(_, _, _, _, _)
ScanHistory(st, hist, seqNo, blp, foundSeqNo) ==
    IF hist = <<>> THEN st
    ELSE
    LET buffer == Head(hist)
        bufferSeqNo == buffer.int32Data % W16
        m == IF bufferSeqNo = seqNo THEN [blp |-> blp, retransmit |-> TRUE]
             ELSE IF blp # 0 THEN MatchBlp(blp, seqNo, bufferSeqNo, 0)
             ELSE [blp |-> blp, retransmit |-> FALSE]
    IN  IF m.retransmit
        THEN LET st1 == [st EXCEPT
                            !.net = sendPacket(@, mRTPRetransmissionSessionID,
                                        RetransRTP(buffer, bufferSeqNo,
                                                   st.rseq)),
                            !.rseq = @ + 1]
                 found1 == foundSeqNo \/ bufferSeqNo = seqNo
             IN  IF found1 /\ m.blp = 0 THEN st1
                 ELSE ScanHistory(st1, Tail(hist), seqNo, m.blp, found1)
        ELSE ScanHistory(st, Tail(hist), seqNo, m.blp, foundSeqNo)

\* for (i = 12; i < size; i += 4), data being buffer + off
RECURSIVE parseTSFBEntries(_, _, _, _, _, _)
parseTSFBEntries(st, buffer, off, size, i, junk) ==
    IF i < size
    THEN parseTSFBEntries(
             ScanHistory(st, mHistory, U16_AT(buffer, off + i, junk),
                         U16_AT(buffer, off + i + 2, junk), FALSE),
             buffer, off, size, i + 4, junk)
    ELSE st

\* a parse that gives up after the first NACK entry
parseTSFB_FirstEntryOnly(st, buffer, off, size, junk) ==
    IF ByteAt(buffer, off, junk) % 32 # 1
    THEN [st |-> st, err |-> ERROR_UNSUPPORTED]
    ELSE IF U32_AT(buffer, off + 8, junk) # kSourceID
    THEN [st |-> st, err |-> ERROR_MALFORMED]
    ELSE [st |-> parseTSFBEntries(st, buffer, off,
                                  IF size > 16 THEN 16 ELSE size, 12, junk),
          err |-> OK]

\* a parse that answers a NACK whatever source it names
parseTSFB_AnySource(st, buffer, off, size, junk) ==
    IF ByteAt(buffer, off, junk) % 32 # 1
    THEN [st |-> st, err |-> ERROR_UNSUPPORTED]
    ELSE [st |-> parseTSFBEntries(st, buffer, off, size, 12, junk),
          err |-> OK]

\* Sender::parseTSFB(data, size), data being buffer + off
parseTSFB(st, buffer, off, size, junk) ==
    IF ByteAt(buffer, off, junk) % 32 # 1
    THEN [st |-> st, err |-> ERROR_UNSUPPORTED]
    ELSE IF U32_AT(buffer, off + 8, junk) # kSourceID
    THEN [st |-> st, err |-> ERROR_MALFORMED]
    ELSE [st |-> parseTSFBEntries(st, buffer, off, size, 12, junk),
          err |-> OK]

\* the offsets of buffer that parseTSFB(buffer + off, size) reads: data[0],
\* then data[8..11] unless the format has ended the call, then the four
\* bytes of every entry unless the source id has
TSFBReads(buffer, off, size, junk) ==
    {off}
    \cup (IF ByteAt(buffer, off, junk) % 32 # 1 THEN {}
          ELSE (off + 8)..(off + 11))
    \cup (IF \/ ByteAt(buffer, off, junk) % 32 # 1
             \/ U32_AT(buffer, off + 8, junk) # kSourceID
          THEN {}
          ELSE {off + i + d : i \in {j \in 12..(size - 1) : j % 4 = 0},
                              d \in 0..3})

\* a length word taken to count the header word too
HeaderLength_WordsOnly(buffer, off, junk) == 4 * U16_AT(buffer, off + 2, junk)

\* headerLength = 4 * (data[2] << 8 | data[3]) + 4
HeaderLength(buffer, off, junk) == 4 * U16_AT(buffer, off + 2, junk) + 4

\* Sender::parseRTCP: the loop, with data = buffer + off and size left.
\* r is [st, visited, err]: visited lists the sub-packets dispatched, each
\* with the status parseTSFB returned for it ("none" if it was not called).
RECURSIVE parseRTCPFrom(_, _, _, _, _)
parseRTCPFrom(r, buffer, off, size, junk) ==
    IF ~(size > 0) THEN [r EXCEPT !.err = OK]
    ELSE IF size < 8 THEN [r EXCEPT !.err = ERROR_MALFORMED]
    ELSE IF ByteAt(buffer, off, junk) \div 64 # 2
    THEN [r EXCEPT !.err = ERROR_UNSUPPORTED]
    ELSE
    LET padded == (ByteAt(buffer, off, junk) \div 32) % 2 = 1
        paddingLength == ByteAt(buffer, off + size - 1, junk)
    IN  IF padded /\ paddingLength + 12 > size
        THEN [r EXCEPT !.err = ERROR_MALFORMED]
        ELSE
        LET size1 == IF padded THEN size - paddingLength ELSE size
            headerLength == HeaderLength(buffer, off, junk)
            type == ByteAt(buffer, off + 1, junk)
        IN  IF size1 < headerLength THEN [r EXCEPT !.err = ERROR_MALFORMED]
            ELSE
            LET tsfb == IF type = 205 /\ ENABLE_RETRANSMISSION
                        THEN parseTSFB(r.st, buffer, off, headerLength, junk)
                        ELSE [st |-> r.st, err |-> "none"]
                r1 == [r EXCEPT !.st = tsfb.st,
                                !.visited = Append(@,
                                    [off |-> off, type |-> type,
                                     headerLength |-> headerLength,
                                     tsfb |-> tsfb.err,
                                     reads |->
                                         IF tsfb.err = "none" THEN {}
                                         ELSE TSFBReads(buffer, off,
                                                        headerLength, junk)])]
            \* parseTSFB's status is dropped
            IN  parseRTCPFrom(r1, buffer, off + headerLength,
                              size1 - headerLength, junk)

parseRTCP(st, buffer, junk) ==
    parseRTCPFrom([st |-> st, visited |-> <<>>, err |-> OK], buffer, 0,
                  Len(buffer), junk)

(***************************************************************************)
(* onMessageReceived, k*Notify with reason kWhatDatagram.  what is the     *)
(* notify message of the session the datagram arrived on.                  *)
(***************************************************************************)
IsRTCPNotify(what) ==
    what = kWhatRTCPNotify \/ what = kWhatRTCPRetransmissionNotify

onDatagram(sessionID, data, junk) ==
    /\ ~crashed /\ ~phase.destroyed
    /\ \E x \in sessions :
          /\ x.id = sessionID
          /\ IF IsRTCPNotify(x.what)
             THEN LET r == parseRTCP([rseq |-> mRTPRetransmissionSeqNo,
                                      net |-> netLog], data, junk)
                  IN  /\ mRTPRetransmissionSeqNo' = r.st.rseq
                      /\ netLog' = r.st.net
                      /\ rtcpLog' = Append(rtcpLog,
                             [data |-> data, err |-> r.err,
                              visited |-> r.visited,
                              rseqBefore |-> mRTPRetransmissionSeqNo,
                              history |-> mHistory,
                              sent |-> SubSeq(r.st.net, Len(netLog) + 1,
                                              Len(r.st.net))])
             ELSE UNCHANGED <<mRTPRetransmissionSeqNo, netLog, rtcpLog>>
    /\ UNCHANGED <<cfgVars, sessVars, connVars, paceVars, pktVars, nowUs,
                   eventQueue, netVars, notifyLog, phase, crashed, calls,
                   flushLog>>
    /\ UNCHANGED <<errLog, srVars>>

(***************************************************************************)
(* onMessageReceived, k*Notify with reason kWhatError.  The report comes   *)
(* from an open session; send is errorOccuredDuringSend.                   *)
(***************************************************************************)
\* every receive-side report passes unnoticed
IsIgnoredError_AnyReceive(what, send) == ~send

\* every report of the RTP socket passes unnoticed
IsIgnoredError_AnyRTP(what, send) ==
    what = kWhatRTPNotify \/ what = kWhatRTPRetransmissionNotify

\* the test that lets a report pass unnoticed: the RTP socket (or the RTP
\* retransmission socket) is not expected to receive anything
IsIgnoredError(what, send) ==
    /\ \/ what = kWhatRTPNotify
       \/ (ENABLE_RETRANSMISSION /\ what = kWhatRTPRetransmissionNotify)
    /\ ~send

\* an error handler that clears no handle
ClearedHandles_KeepsAll(sessionID) ==
    [rtp |-> mRTPSessionID, rtcp |-> mRTCPSessionID,
     rtpRe |-> mRTPRetransmissionSessionID,
     rtcpRe |-> mRTCPRetransmissionSessionID]

\* the handles after the if / else-if chain that clears the one equal to
\* sessionID
ClearedHandles(sessionID) ==
    IF sessionID = mRTPSessionID
    THEN [rtp |-> 0, rtcp |-> mRTCPSessionID,
          rtpRe |-> mRTPRetransmissionSessionID,
          rtcpRe |-> mRTCPRetransmissionSessionID]
    ELSE IF sessionID = mRTCPSessionID
    THEN [rtp |-> mRTPSessionID, rtcp |-> 0,
          rtpRe |-> mRTPRetransmissionSessionID,
          rtcpRe |-> mRTCPRetransmissionSessionID]
    ELSE IF ENABLE_RETRANSMISSION /\ sessionID = mRTPRetransmissionSessionID
    THEN [rtp |-> mRTPSessionID, rtcp |-> mRTCPSessionID, rtpRe |-> 0,
          rtcpRe |-> mRTCPRetransmissionSessionID]
    ELSE IF ENABLE_RETRANSMISSION /\ sessionID = mRTCPRetransmissionSessionID
    THEN [rtp |-> mRTPSessionID, rtcp |-> mRTCPSessionID,
          rtpRe |-> mRTPRetransmissionSessionID, rtcpRe |-> 0]
    ELSE [rtp |-> mRTPSessionID, rtcp |-> mRTCPSessionID,
          rtpRe |-> mRTPRetransmissionSessionID,
          rtcpRe |-> mRTCPRetransmissionSessionID]

onError(sessionID, send) ==
    /\ ~crashed /\ ~phase.destroyed
    /\ Len(errLog) < MaxErrors
    /\ \E x \in sessions :
          /\ x.id = sessionID
          /\ errLog' = Append(errLog, [sessionID |-> sessionID,
                                       what |-> x.what, send |-> send])
          /\ IF IsIgnoredError(x.what, send)
             THEN UNCHANGED <<sessVars, netVars, netLog, notifyLog>>
             ELSE LET ns == destroySession(
                                [sessions |-> sessions,
                                 nextID |-> nextSessionID, net |-> netLog],
                                sessionID)
                      h == ClearedHandles(sessionID)
                  IN  /\ sessions' = ns.sessions
                      /\ nextSessionID' = ns.nextID
                      /\ netLog' = ns.net
                      /\ mRTPSessionID' = h.rtp
                      /\ mRTCPSessionID' = h.rtcp
                      /\ mRTPRetransmissionSessionID' = h.rtpRe
                      /\ mRTCPRetransmissionSessionID' = h.rtcpRe
                      /\ notifyLog' = notifySessionDead(notifyLog)
    /\ UNCHANGED <<cfgVars, connVars, paceVars, pktVars,
                   mRTPRetransmissionSeqNo, nowUs, eventQueue, phase, crashed,
                   calls, flushLog, rtcpLog, srVars>>

(***************************************************************************)
(* onMessageReceived, k*Notify with reason kWhatConnected.  The network    *)
(* reports the connect of a TCP session once.                              *)
(***************************************************************************)
\* a test that does not wait for RTCP
InitIsDone_RTPAlone(rtpConnected, rtcpConnected) == rtpConnected

\* the test that posts kWhatInitDone
InitIsDone(rtpConnected, rtcpConnected) ==
    rtpConnected /\ (mClientRTCPPort < 0 \/ rtcpConnected)

onConnected(sessionID) ==
    /\ ~crashed /\ ~phase.destroyed
    /\ \E x \in sessions :
          /\ x.id = sessionID
          /\ x.kind = "TCPDatagram"
          /\ ~x.connected
          /\ sessions' = (sessions \ {x}) \cup {[x EXCEPT !.connected = TRUE]}
    /\ IF mTransportMode # TRANSPORT_TCP
       \* CHECK_EQ(mTransportMode, TRANSPORT_TCP)
       THEN crashed' = TRUE /\ UNCHANGED <<connVars, notifyLog>>
       ELSE IF sessionID = mRTPSessionID
       THEN IF mRTPConnected
            \* CHECK(!mRTPConnected)
            THEN crashed' = TRUE /\ UNCHANGED <<connVars, notifyLog>>
            ELSE /\ mRTPConnected' = TRUE
                 /\ UNCHANGED <<mRTCPConnected, crashed>>
                 /\ notifyLog' = IF InitIsDone(TRUE, mRTCPConnected)
                                 THEN notifyInitDone(notifyLog)
                                 ELSE notifyLog
       ELSE IF sessionID = mRTCPSessionID
       THEN IF mRTCPConnected
            \* CHECK(!mRTCPConnected)
            THEN crashed' = TRUE /\ UNCHANGED <<connVars, notifyLog>>
            ELSE /\ mRTCPConnected' = TRUE
                 /\ UNCHANGED <<mRTPConnected, crashed>>
                 /\ notifyLog' = IF InitIsDone(mRTPConnected, TRUE)
                                 THEN notifyInitDone(notifyLog)
                                 ELSE notifyLog
       \* TRESPASS()
       ELSE crashed' = TRUE /\ UNCHANGED <<connVars, notifyLog>>
    /\ UNCHANGED <<cfgVars, sessVars, paceVars, pktVars,
                   mRTPRetransmissionSeqNo, nowUs, eventQueue, nextSessionID,
                   netLog, phase, calls, flushLog, rtcpLog, errLog, srVars>>

(***************************************************************************)
(* Sender reports: scheduleSendSR, the kWhatSendSR message and onSendSR.   *)
(* The times written into a report (mLastNTPTime, mLastRTPTime) are left   *)
(* out.                                                                    *)
(***************************************************************************)
\* a kWhatSendSR message carries nothing
NoPackets == [id |-> 0, size |-> 0]

\* a schedule that does not look at the pending flag
ShouldArmSR_IgnoresPending(pending, rtcpSessionID) == rtcpSessionID # 0

\* a schedule that does not look at the RTCP handle
ShouldArmSR_IgnoresHandle(pending, rtcpSessionID) == ~pending

\* scheduleSendSR goes on unless mSendSRPending || mRTCPSessionID == 0
ShouldArmSR(pending, rtcpSessionID) == ~(pending \/ rtcpSessionID = 0)

\* Sender::scheduleSendSR, on sr = [pending, queue]
scheduleSendSRFrom(sr) ==
    IF ShouldArmSR(sr.pending, mRTCPSessionID)
    THEN [pending |-> TRUE,
          queue |-> ALooperPost(sr.queue, "kWhatSendSR", NoPackets,
                                kSendSRIntervalUs)]
    ELSE sr

NumSRCalls ==
    Cardinality({i \in 1..Len(srLog) : srLog[i].op = "scheduleSendSR"})

\* the owner calls scheduleSendSR
scheduleSendSR ==
    /\ ~crashed /\ ~phase.destroyed
    /\ NumSRCalls < MaxSRCalls
    /\ LET sr == scheduleSendSRFrom([pending |-> mSendSRPending,
                                     queue |-> eventQueue])
       IN  /\ mSendSRPending' = sr.pending
           /\ eventQueue' = sr.queue
    /\ srLog' = Append(srLog, [op |-> "scheduleSendSR",
                               pending |-> mSendSRPending,
                               rtcpSessionID |-> mRTCPSessionID])
    /\ UNCHANGED <<cfgVars, sessVars, connVars, paceVars, pktVars,
                   mRTPRetransmissionSeqNo, nowUs, netVars, netLog, notifyLog,
                   phase, crashed, calls, flushLog, rtcpLog, errLog,
                   mNumSRsSent>>

\* Sender::addSR: one RTCP packet of type 200, length field 6, 28 bytes
addSR(buffer) ==
    Append(buffer, [pt |-> 200, first |-> 128, words |-> 6, size |-> 28,
                    ssrc |-> kSourceID, numRTPSent |-> mNumRTPSent,
                    numRTPOctetsSent |-> mNumRTPOctetsSent])

\* the bytes addSDES writes before it pads: header and source id, the
\* CNAME item (2 + 17), the NOTE item (2 + 19) and the closing 0
SDESUnpadded == 8 + (2 + 17) + (2 + 19) + 1

\* Sender::addSDES: one RTCP packet of type 202, padded to whole words
addSDES(buffer) ==
    LET offset == IF SDESUnpadded % 4 > 0
                  THEN SDESUnpadded + (4 - (SDESUnpadded % 4))
                  ELSE SDESUnpadded
    IN  Append(buffer, [pt |-> 202, first |-> 129,
                        words |-> (offset \div 4) - 1, size |-> offset,
                        ssrc |-> kSourceID])

\* the buffer of onSendSR: addSR then addSDES
SRBuffer == [fmt |-> "RTCP", parts |-> addSDES(addSR(<<>>))]

\* onMessageReceived, kWhatSendSR
onSendSRMessage ==
    /\ ~crashed /\ ~phase.destroyed
    /\ eventQueue # <<>>
    /\ Head(eventQueue).what = "kWhatSendSR"
    /\ Head(eventQueue).whenUs <= nowUs
    /\ IF mRTCPSessionID = 0
       THEN /\ mSendSRPending' = FALSE
            /\ eventQueue' = Tail(eventQueue)
            /\ UNCHANGED <<netLog, notifyLog, mNumSRsSent>>
       ELSE \* onSendSR(); scheduleSendSR()
            /\ IF mTransportMode = TRANSPORT_TCP_INTERLEAVED
               THEN /\ notifyLog' = notifyBinaryData(notifyLog, mRTCPChannel,
                                                     SRBuffer)
                    /\ UNCHANGED netLog
               ELSE /\ netLog' = sendPacket(netLog, mRTCPSessionID, SRBuffer)
                    /\ UNCHANGED notifyLog
            /\ mNumSRsSent' = mNumSRsSent + 1
            /\ LET sr == scheduleSendSRFrom([pending |-> FALSE,
                                             queue |-> Tail(eventQueue)])
               IN  /\ mSendSRPending' = sr.pending
                   /\ eventQueue' = sr.queue
    /\ srLog' = Append(srLog, [op |-> "kWhatSendSR",
                               pending |-> mSendSRPending,
                               rtcpSessionID |-> mRTCPSessionID])
    /\ UNCHANGED <<cfgVars, sessVars, connVars, paceVars, pktVars,
                   mRTPRetransmissionSeqNo, nowUs, netVars, phase, crashed,
                   calls, flushLog, rtcpLog, errLog>>

(***************************************************************************)
(* Sender::~Sender.                                                        *)
(***************************************************************************)
\* if (handle != 0) destroySession(handle), in the destructor's order
RECURSIVE destroyHandles(_, _)
destroyHandles(ns, handles) ==
    IF handles = <<>> THEN ns
    ELSE destroyHandles(IF Head(handles) # 0
                        THEN destroySession(ns, Head(handles)) ELSE ns,
                        Tail(handles))

SenderDtor ==
    /\ ~crashed /\ ~phase.destroyed
    /\ LET ns == destroyHandles(
                     [sessions |-> sessions, nextID |-> nextSessionID,
                      net |-> netLog],
                     IF ENABLE_RETRANSMISSION
                     THEN <<mRTCPRetransmissionSessionID,
                            mRTPRetransmissionSessionID, mRTCPSessionID,
                            mRTPSessionID>>
                     ELSE <<mRTCPSessionID, mRTPSessionID>>)
       IN  /\ sessions' = ns.sessions
           /\ nextSessionID' = ns.nextID
           /\ netLog' = ns.net
    /\ phase' = [phase EXCEPT !.destroyed = TRUE]
    /\ UNCHANGED <<cfgVars, sessVars, connVars, paceVars, pktVars,
                   mRTPRetransmissionSeqNo, nowUs, eventQueue, notifyLog,
                   crashed, calls, flushLog, rtcpLog, errLog, srVars>>

(***************************************************************************)
(* The state after Sender::Sender.                                         *)
(***************************************************************************)
Init ==
    /\ ENABLE_RETRANSMISSION \in BOOLEAN
    /\ mTransportMode = TRANSPORT_UDP
    /\ mRTPChannel = 0
    /\ mRTCPChannel = 0
    /\ mRTPPort = 0
    /\ mClientRTPPort = 0
    /\ mClientRTCPPort = 0
    /\ mRTPSessionID = 0
    /\ mRTCPSessionID = 0
    /\ mRTPRetransmissionSessionID = 0
    /\ mRTCPRetransmissionSessionID = 0
    /\ mRTPConnected = FALSE
    /\ mRTCPConnected = FALSE
    /\ mFirstOutputBufferReadyTimeUs = -1
    /\ mFirstOutputBufferSentTimeUs = -1
    /\ mTSQueue = SetRangeHeaderOnly(NewABuffer(0))
    /\ mRTPSeqNo = 0
    /\ mNumRTPSent = 0
    /\ mNumRTPOctetsSent = 0
    /\ mHistory = <<>>
    /\ mHistoryLength = 0
    /\ mRTPRetransmissionSeqNo = 0
    /\ nowUs = 0
    /\ eventQueue = <<>>
    /\ sessions = {}
    /\ nextSessionID = 1
    /\ netLog = <<>>
    /\ notifyLog = <<>>
    /\ phase = [init |-> FALSE, finishInit |-> FALSE, destroyed |-> FALSE,
                priorFlushes |-> 0, scanning |-> FALSE, serverRtp |-> 0,
                clientRtcp |-> 0, initErr |-> "none"]
    /\ crashed = FALSE
    /\ calls = <<>>
    /\ flushLog = <<>>
    /\ rtcpLog = <<>>
    /\ errLog = <<>>
    /\ mSendSRPending = FALSE
    /\ mNumSRsSent = 0
    /\ srLog = <<>>

(***************************************************************************)
(* The packetizer: init over UDP or interleaved, batches of every size     *)
(* class (empty, one packet, exactly a full RTP packet, more than one RTP  *)
(* packet), dispatched at once or after later calls.  All timestamps are   *)
(* equal, so every batch is due when it is queued.                         *)
(***************************************************************************)
BatchPkts == {0, 1, kMaxNumTSPacketsPerRTPPacket, MaxBatchPkts}
ClientRtp == 4
ClientRtcp == 5

PacketizerNext ==
    \/ \E mode \in {TRANSPORT_UDP, TRANSPORT_TCP_INTERLEAVED} :
           init(ClientRtp, ClientRtcp, mode, <<>>)
    \/ \E n \in BatchPkts : queuePackets(0, 188 * n)
    \/ onQueuePackets

PacketizerSpec == Init /\ [][PacketizerNext]_vars

(***************************************************************************)
(* The pacing: batches queued at any time with any (non-negative)          *)
(* presentation timestamps, dispatched by the message loop when due.       *)
(***************************************************************************)
PacingBatchPkts == {MaxBatchPkts}

PacingNext ==
    \/ init(ClientRtp, ClientRtcp, TRANSPORT_UDP, <<>>)
    \/ \E timeUs \in 0..MaxTimeUs, n \in PacingBatchPkts :
           queuePackets(timeUs, 188 * n)
    \/ onQueuePackets
    \* the clock's origin is the call of init
    \/ (phase.init /\ Tick)

PacingSpec == Init /\ [][PacingNext]_vars


(***************************************************************************)
(* The session lifecycle: init in any mode, with or without an RTCP port,  *)
(* binds failing or not, finishInit, connects and errors in any order,     *)
(* and the destructor.                                                     *)
(***************************************************************************)
BindFailures == {"failRTP", "failRTCP", "failRTPRetrans", "failRTCPRetrans"}

RECURSIVE PlansOfLen(_)
PlansOfLen(n) ==
    IF n = 0 THEN {<<>>}
    ELSE {<<f>> \o p : f \in BindFailures, p \in PlansOfLen(n - 1)}

Plans == UNION {PlansOfLen(n) : n \in 0..MaxBindFailures}

LifecycleNext ==
    \/ \E mode \in {TRANSPORT_UDP, TRANSPORT_TCP_INTERLEAVED, TRANSPORT_TCP},
          clientRtcp \in {-1, ClientRtcp}, plan \in Plans :
           init(ClientRtp, clientRtcp, mode, plan)
    \/ \E outcome \in {"ok", "failRTP", "failRTCP"} : finishInit(outcome)
    \/ \E x \in sessions : onConnected(x.id)
    \/ \E x \in sessions, send \in BOOLEAN : onError(x.id, send)
    \/ SenderDtor

LifecycleSpec == Init /\ [][LifecycleNext]_vars


(***************************************************************************)
(* Retransmission: a sender over UDP that flushes packets and receives     *)
(* NACKs in any order.  The run starts from the constructed sender or      *)
(* from a sender that has already flushed PriorFlushes one-packet batches  *)
(* (so that the 16-bit sequence number wraps within the run): init has     *)
(* returned, the anchors are set, the history holds the last               *)
(* kMaxHistoryLength packets and the buffer evicted last is mTSQueue.      *)
(***************************************************************************)
PriorFlushes == W16 - 2

\* packet number n of the earlier run: TS packet <<0, n>> alone
PriorBuffer(i, n) ==
    [id |-> i, capacity |-> TSQueueCapacity, size |-> 12 + 188,
     ts |-> <<<<0, n>>>>, int32Data |-> n, b2 |-> HiByte(n),
     b3 |-> LoByte(n), marker |-> TRUE]

AgedInit ==
    /\ ENABLE_RETRANSMISSION \in BOOLEAN
    /\ mTransportMode = TRANSPORT_UDP
    /\ mRTPChannel = 0
    /\ mRTCPChannel = 0
    /\ mClientRTPPort = 0
    /\ mClientRTCPPort = 0
    /\ LET r == initLoop([ns |-> [sessions |-> {}, nextID |-> 1,
                                  net |-> <<>>],
                          done |-> FALSE, crashed |-> FALSE, port |-> 0,
                          rtp |-> 0, rtcp |-> 0, rtpRe |-> 0, rtcpRe |-> 0],
                         kFirstServerRtpPort, <<>>, ClientRtcp, TRANSPORT_UDP)
       IN  /\ mRTPPort = r.port
           /\ mRTPSessionID = r.rtp
           /\ mRTCPSessionID = r.rtcp
           /\ mRTPRetransmissionSessionID = r.rtpRe
           /\ mRTCPRetransmissionSessionID = r.rtcpRe
           /\ sessions = r.ns.sessions
           /\ nextSessionID = r.ns.nextID
           /\ netLog = r.ns.net
    /\ mRTPConnected = FALSE
    /\ mRTCPConnected = FALSE
    /\ mFirstOutputBufferReadyTimeUs = 0
    /\ mFirstOutputBufferSentTimeUs = 0
    /\ mTSQueue = SetRangeHeaderOnly(NewABuffer(0))
    /\ mRTPSeqNo = PriorFlushes
    /\ mNumRTPSent = PriorFlushes
    /\ mNumRTPOctetsSent = 188 * PriorFlushes
    /\ mHistory = IF ENABLE_RETRANSMISSION
                  THEN [i \in 1..kMaxHistoryLength |->
                           PriorBuffer(i, PriorFlushes - kMaxHistoryLength
                                          + i - 1)]
                  ELSE <<>>
    /\ mHistoryLength = IF ENABLE_RETRANSMISSION THEN kMaxHistoryLength ELSE 0
    /\ mRTPRetransmissionSeqNo = 0
    /\ nowUs = 0
    /\ eventQueue = <<>>
    /\ notifyLog = <<>>
    /\ phase = [init |-> TRUE, finishInit |-> FALSE, destroyed |-> FALSE,
                priorFlushes |-> PriorFlushes, scanning |-> FALSE,
                serverRtp |-> 0, clientRtcp |-> 0, initErr |-> OK]
    /\ crashed = FALSE
    /\ calls = <<>>
    /\ flushLog = <<>>
    /\ rtcpLog = <<>>
    /\ errLog = <<>>
    /\ mSendSRPending = FALSE
    /\ mNumSRsSent = 0
    /\ srLog = <<>>

\* a transport-layer feedback packet (type 205) of format fmt about the
\* source ssrc, with the NACK entries <<seqNo, blp>>
RECURSIVE EntryBytes(_)
EntryBytes(entries) ==
    IF entries = <<>> THEN <<>>
    ELSE <<HiByte(Head(entries)[1]), LoByte(Head(entries)[1]),
           HiByte(Head(entries)[2]), LoByte(Head(entries)[2])>>
         \o EntryBytes(Tail(entries))

TSFBPacket(fmt, ssrc, entries) ==
    <<128 + fmt, 205, 0, 2 + Len(entries), 0, 0, 0, 1,
      HiByte(ssrc[1]), LoByte(ssrc[1]), HiByte(ssrc[2]), LoByte(ssrc[2])>>
    \o EntryBytes(entries)

\* the NACKs received: entries <<base, bitmask>> around 0 and around the
\* wrap, with one bit and two bits set; the last has an entry without bits
\* and asks twice for 1
NackRequests ==
    {<<<<0, 3>>>>, <<<<W16 - 3, 3>>>>, <<<<W16 - 1, 1>>>>, <<<<W16 - 1, 6>>>>,
     <<<<0, 1>>, <<1, 0>>>>}

NackBuffers == {TSFBPacket(1, kSourceID, entries) : entries \in NackRequests}

RetransNext ==
    \/ \E transportMode \in {TRANSPORT_UDP, TRANSPORT_TCP_INTERLEAVED} :
           init(ClientRtp, ClientRtcp, transportMode, <<>>)
    \/ \E n \in {1, MaxBatchPkts} :
           Len(calls) < MaxRetransBatches /\ queuePackets(0, 188 * n)
    \/ onQueuePackets
    \/ \E x \in sessions, data \in NackBuffers :
           Len(rtcpLog) < MaxDatagrams /\ onDatagram(x.id, data, 0)

RetransSpec == (Init \/ AgedInit) /\ [][RetransNext]_vars

(***************************************************************************)
(* RTCP of every kind: a sender over UDP that flushes batches of two RTP   *)
(* packets (after kMaxHistoryLength + 1 packets, packet 0 has left the     *)
(* history) and receives compound RTCP buffers, well-formed or not.        *)
(***************************************************************************)
\* an RTCP packet: first byte (version, padding bit, count), type, length
\* in words minus one, then the body (a multiple of 4 bytes)
RTCPPacket(first, type, body) ==
    <<first, type, (Len(body) \div 4) \div 256, (Len(body) \div 4) % 256>>
    \o body

SenderSSRC == <<0, 0, 0, 1>>
SRPacket == RTCPPacket(128, 200, SenderSSRC \o <<0, 0, 0, 0>>)
SDESPacket == RTCPPacket(129, 202, SenderSSRC \o <<1, 1, 97, 0>>)
UnknownPacket == RTCPPacket(128, 210, SenderSSRC)
\* version 1
BadVersionPacket == RTCPPacket(64, 200, SenderSSRC)
\* a feedback packet that is not a generic NACK (format 2)
BadFormatTSFB == TSFBPacket(2, kSourceID, <<<<0, 0>>>>)
\* a NACK about another source
OtherSourceNack == TSFBPacket(1, <<1, 1>>, <<<<0, 0>>>>)
\* the padding bit with a padding longer than the packet
BadPaddingPacket == RTCPPacket(160, 200, <<0, 0, 0, 200>>)
\* a length of 6 words with 2 present
PartialPacket == <<128, 200, 0, 5, 0, 0, 0, 1>>

\* neither the format nor the source of a NACK of this sender
BadFormatOtherSource == TSFBPacket(2, <<1, 1>>, <<<<0, 0>>>>)

Nack(entries) == TSFBPacket(1, kSourceID, entries)

\* a feedback packet of format 1 that ends after its sender's id: length
\* field 1, 8 bytes
ShortNack == RTCPPacket(129, 205, <<0, 0, 0, 1>>)

WellFormedParts == {SRPacket, SDESPacket, UnknownPacket}

\* well-formed compounds of SR, SDES and unknown types, as the sequence of
\* their sub-packets: one packet, any two, and the three in any order
WellFormedSeqs ==
    {<<a>> : a \in WellFormedParts}
    \cup {<<a, b>> : a, b \in WellFormedParts}
    \cup {u \in WellFormedParts \X WellFormedParts \X WellFormedParts :
              u[1] # u[2] /\ u[1] # u[3] /\ u[2] # u[3]}

RECURSIVE Concat(_)
Concat(parts) ==
    IF parts = <<>> THEN <<>> ELSE Head(parts) \o Concat(Tail(parts))

WellFormedBuffers == {Concat(parts) : parts \in WellFormedSeqs}

ShortBuffers == {<<>>, <<128>>, <<128, 200, 0, 1, 0, 0, 0>>}

MalformedTails == {<<128, 200, 0>>, BadPaddingPacket, PartialPacket}

NackOfTwo == Nack(<<<<0, 0>>, <<1, 0>>>>)

RtcpBuffers ==
    WellFormedBuffers
    \cup ShortBuffers
    \cup MalformedTails
    \cup {Nack(<<<<0, 0>>>>) \o t : t \in MalformedTails}
    \cup {Nack(<<<<0, 0>>>>), Nack(<<<<0, 3>>>>), Nack(<<<<3, 1>>>>),
          NackOfTwo, OtherSourceNack, OtherSourceNack \o Nack(<<<<1, 0>>>>),
          BadVersionPacket, BadVersionPacket \o Nack(<<<<1, 0>>>>),
          BadFormatTSFB, BadFormatTSFB \o Nack(<<<<1, 0>>>>),
          BadFormatOtherSource, BadFormatTSFB \o OtherSourceNack,
          ShortNack, ShortNack \o SRPacket,
          Nack(<<<<1, 0>>>>) \o BadFormatTSFB \o SRPacket,
          SRPacket \o Nack(<<<<1, 0>>>>) \o UnknownPacket}

\* what a read past the end of the received buffer may find
JunkBytes == {0, 255}

RtcpNext ==
    \/ init(ClientRtp, ClientRtcp, TRANSPORT_UDP, <<>>)
    \/ Len(calls) < MaxRtcpBatches /\ queuePackets(0, 188 * MaxBatchPkts)
    \/ onQueuePackets
    \/ \E x \in sessions, data \in RtcpBuffers, junk \in JunkBytes :
           Len(rtcpLog) < MaxRtcpDatagrams /\ onDatagram(x.id, data, junk)

RtcpSpec == Init /\ [][RtcpNext]_vars

(***************************************************************************)
(* Sender reports: the owner calls scheduleSendSR at any time, the timer   *)
(* message is handled when due, sessions report errors.                    *)
(***************************************************************************)
SRNext ==
    \/ \E mode \in {TRANSPORT_UDP, TRANSPORT_TCP_INTERLEAVED, TRANSPORT_TCP} :
           init(ClientRtp, ClientRtcp, mode, <<>>)
    \/ finishInit("ok")
    \/ scheduleSendSR
    \/ onSendSRMessage
    \/ (phase.init /\ Tick)
    \/ \E x \in sessions, send \in BOOLEAN : onError(x.id, send)

SRSpec == Init /\ [][SRNext]_vars

\* the message loop handles a due message, and the clock goes on
FairSRSpec ==
    SRSpec /\ WF_vars(onSendSRMessage) /\ WF_vars(phase.init /\ Tick)

(***************************************************************************)
(* The port scan of init, step by step, against a network that may refuse  *)
(* every bind; then errors and the destructor.  The loop of init goes on   *)
(* as long as it is not left: the fair specification lets no iteration     *)
(* that can be taken wait for ever.                                        *)
(***************************************************************************)
ScanNext ==
    \/ \E clientRtcp \in {-1, ClientRtcp} : initBegin(ClientRtp, clientRtcp)
    \/ \E outcome \in {"ok"} \cup BindFailures : initScan(outcome)
    \/ \E x \in sessions, send \in BOOLEAN :
           phase.init /\ onError(x.id, send)
    \/ (phase.init /\ SenderDtor)

ScanSpec == Init /\ [][ScanNext]_vars

FairScanSpec ==
    ScanSpec /\ WF_vars(\E outcome \in {"ok"} \cup BindFailures :
                           initScan(outcome))

(***************************************************************************)
(* Every path that sends: RTP packets, retransmissions and sender          *)
(* reports, over UDP and TCP, before and after finishInit, with sessions   *)
(* that report errors.                                                     *)
(***************************************************************************)
SendNext ==
    \/ \E mode \in {TRANSPORT_UDP, TRANSPORT_TCP} :
           init(ClientRtp, ClientRtcp, mode, <<>>)
    \/ finishInit("ok")
    \/ Len(calls) < MaxSendBatches /\ queuePackets(0, 188)
    \/ onQueuePackets
    \/ \E x \in sessions :
           /\ Len(rtcpLog) < MaxSendDatagrams
           /\ onDatagram(x.id, Nack(<<<<0, 0>>>>), 0)
    \/ NumSRCalls < MaxSendSRCalls /\ scheduleSendSR
    \/ onSendSRMessage
    \/ (phase.init /\ Tick)
    \/ \E x \in sessions, send \in BOOLEAN :
           Len(errLog) < MaxSendErrors /\ onError(x.id, send)

SendSpec == Init /\ [][SendNext]_vars

(***************************************************************************)
(* What a receiver sees.                                                   *)
(***************************************************************************)
IsRTPSend(e) == e.op = "sendRequest" /\ e.pkt.fmt = "RTP"
IsRetransmissionSend(e) ==
    e.op = "sendRequest" /\ e.pkt.fmt = "RTPRetransmission"
IsBinaryData(n) == n.what = kWhatBinaryData

\* the RTP packets flushed so far, in the order they were handed to the
\* transport (send requests) or to the caller (interleaved mode)
RTPWire ==
    LET sends == SelectSeq(netLog, IsRTPSend)
        datas == SelectSeq(notifyLog, IsBinaryData)
    IN  [i \in 1..Len(sends) |-> sends[i].pkt]
        \o [i \in 1..Len(datas) |-> datas[i].data]

\* the TS packets of a sequence of RTP packets, in wire order
RECURSIVE FlattenTS(_)
FlattenTS(wire) ==
    IF wire = <<>> THEN <<>> ELSE Head(wire).ts \o FlattenTS(Tail(wire))

RECURSIVE SumPayload(_)
SumPayload(wire) ==
    IF wire = <<>> THEN 0 ELSE (Head(wire).size - 12) + SumPayload(Tail(wire))

RECURSIVE SumQueued(_)
SumQueued(cs) == IF cs = <<>> THEN 0 ELSE Head(cs).size + SumQueued(Tail(cs))

\* every queued batch was handed to onQueuePackets
AllDispatched == eventQueue = <<>>

\* the TS packets queued: packet k of batch id is <<id, k>>
QueuedTS ==
    UNION {{<<calls[i].id, k>> : k \in 0..((calls[i].size \div 188) - 1)} :
              i \in 1..Len(calls)}

(***************************************************************************)
(* C2.  Once every batch (a whole multiple of 188 bytes) is dispatched,    *)
(* the payload bytes of the RTP packets emitted (size minus 12) add up to  *)
(* the TS bytes queued: every TS packet queued is on the wire exactly      *)
(* once and nothing is left in the accumulation buffer.                    *)
(***************************************************************************)
C2_PayloadEqualsQueued ==
    AllDispatched =>
        /\ SumPayload(RTPWire) = SumQueued(calls)
        /\ \A i \in 1..Len(RTPWire) :
               RTPWire[i].size - 12 = 188 * Len(RTPWire[i].ts)
        /\ LET ts == FlattenTS(RTPWire)
           IN  /\ \A i, j \in 1..Len(ts) : ts[i] = ts[j] => i = j
               /\ {ts[i] : i \in 1..Len(ts)} = QueuedTS
        /\ mTSQueue.size = 12
        /\ mTSQueue.ts = <<>>

C2_Witness ==
    /\ AllDispatched
    /\ Len(calls) >= 2
    /\ \E i \in 1..Len(calls) :
          calls[i].size > kMaxNumTSPacketsPerRTPPacket * 188
    /\ Len(RTPWire) >= 3

(***************************************************************************)
(* C3.  appendTSData flushes exactly when the appended packet is the last  *)
(* of its batch or the buffer has reached its capacity; the buffer's size  *)
(* is always 12 plus a multiple of 188 and at most the capacity, so that   *)
(* the capacity CHECK never fails; after a flush the size is 12.           *)
(***************************************************************************)
C3_FlushIffLastOrFull ==
    /\ ~crashed
    /\ (mTSQueue.size - 12) % 188 = 0
    /\ mTSQueue.size >= 12
    /\ mTSQueue.size <= TSQueueCapacity
    /\ mTSQueue.capacity = TSQueueCapacity
    /\ \A i \in 1..Len(flushLog) :
          LET e == flushLog[i]
          IN  /\ e.emitted \in {0, 1}
              /\ e.emitted = 1 <=>
                     (e.flush \/ e.sizeAppended = TSQueueCapacity)
              /\ (e.sizeAppended - 12) % 188 = 0
              /\ e.sizeAppended <= TSQueueCapacity
              /\ e.emitted = 1 => e.sizeAfter = 12
              /\ e.emitted = 0 => e.sizeAfter = e.sizeAppended

\* a flush forced by the capacity alone, and one forced by the flag alone
C3_Witness ==
    /\ \E i \in 1..Len(flushLog) :
          /\ ~flushLog[i].flush
          /\ flushLog[i].emitted = 1
          /\ flushLog[i].sizeAppended = TSQueueCapacity
    /\ \E i \in 1..Len(flushLog) :
          /\ flushLog[i].flush
          /\ flushLog[i].emitted = 1
          /\ flushLog[i].sizeAppended < TSQueueCapacity
    /\ \E i \in 1..Len(flushLog) : flushLog[i].emitted = 0

C4_EnqueueOrderKept ==
    LET ts == FlattenTS(RTPWire)
        OnWire(x) == \E i \in 1..Len(ts) : ts[i] = x
    IN  \A a, b \in 1..Len(calls) :
            (a < b /\ \E j \in 1..Len(ts) : ts[j][1] = b) =>
                /\ \A k \in 0..((calls[a].size \div 188) - 1) :
                       OnWire(<<a, k>>)
                /\ \A i, j \in 1..Len(ts) :
                       (ts[i][1] = a /\ ts[j][1] = b) => i < j

(***************************************************************************)
(* C9.  With retransmission enabled the history holds, after every flush,  *)
(* at most kMaxHistoryLength packets, the most recent ones in send order;  *)
(* a flush that would exceed the maximum removes exactly the oldest entry  *)
(* and its buffer becomes the accumulation buffer, reset to size 12;       *)
(* any other flush keeps every entry and takes a new buffer.               *)
(***************************************************************************)
C9_HistoryBoundedOldestRecycled ==
    ENABLE_RETRANSMISSION =>
        /\ mHistoryLength = Len(mHistory)
        /\ Len(mHistory) <= kMaxHistoryLength
        /\ Len(mHistory) =
               IF Len(RTPWire) <= kMaxHistoryLength
               THEN Len(RTPWire) ELSE kMaxHistoryLength
        /\ \A i \in 1..Len(mHistory) :
              LET p == RTPWire[Len(RTPWire) - Len(mHistory) + i]
              IN  /\ mHistory[i].ts = p.ts
                  /\ mHistory[i].size = p.size
                  /\ mHistory[i].int32Data % W16 = U16(p.b2, p.b3)
        /\ \A i \in 1..Len(mHistory) : mHistory[i].id # mTSQueue.id
        /\ \A i \in 1..Len(flushLog) :
              LET e == flushLog[i]
              IN  IF e.emitted = 0
                  THEN e.historyAfter = e.history /\ e.queueAfter = e.queue
                  ELSE IF Len(e.history) = kMaxHistoryLength
                  THEN /\ e.queueAfter = e.history[1]
                       /\ e.historyAfter = Tail(e.history) \o <<e.queue>>
                       /\ e.sizeAfter = 12
                  ELSE /\ e.historyAfter = e.history \o <<e.queue>>
                       /\ \A k \in 1..Len(e.historyAfter) :
                              e.historyAfter[k] # e.queueAfter
                       /\ e.sizeAfter = 12

\* an eviction has happened and the history is full
C9_Witness ==
    /\ ENABLE_RETRANSMISSION
    /\ Len(mHistory) = kMaxHistoryLength
    /\ \E i \in 1..Len(flushLog) :
          /\ flushLog[i].emitted = 1
          /\ Len(flushLog[i].history) = kMaxHistoryLength
          /\ flushLog[i].queueAfter = flushLog[i].history[1]
    /\ mTSQueue.size = 12

(***************************************************************************)
(* C1.  The sequence number in header bytes 2-3 of the k-th RTP packet     *)
(* flushed is the number of packets flushed before it, modulo 65536: 0     *)
(* for the first packet of a sender, and the previous packet's number plus *)
(* 1 modulo 65536 after that, wherever the batches end and whatever NACKs  *)
(* were answered in between.                                               *)
(***************************************************************************)
C1_SeqNoPlusOneMod65536 ==
    /\ \A k \in 1..Len(RTPWire) :
          U16(RTPWire[k].b2, RTPWire[k].b3) =
              (phase.priorFlushes + k - 1) % W16
    /\ \A k \in 2..Len(RTPWire) :
          U16(RTPWire[k].b2, RTPWire[k].b3) =
              (U16(RTPWire[k - 1].b2, RTPWire[k - 1].b3) + 1) % W16
    /\ (phase.priorFlushes = 0 /\ RTPWire # <<>>) =>
          U16(RTPWire[1].b2, RTPWire[1].b3) = 0

\* the number wrapped from 65535 to 0 inside a batch, and a retransmission
\* was sent between two flushes
C1_Witness ==
    /\ \E k \in 2..Len(RTPWire) :
          /\ U16(RTPWire[k - 1].b2, RTPWire[k - 1].b3) = W16 - 1
          /\ U16(RTPWire[k].b2, RTPWire[k].b3) = 0
    /\ \E i, j, k \in 1..Len(netLog) :
          /\ i < j /\ j < k
          /\ IsRTPSend(netLog[i])
          /\ IsRetransmissionSend(netLog[j])
          /\ IsRTPSend(netLog[k])
    /\ \E i \in 1..Len(calls) : calls[i].size > 188

(***************************************************************************)
(* C10.  With retransmission enabled, a NACK entry (base, bitmask) is      *)
(* answered by one retransmission for each packet of the history whose     *)
(* sequence number is base or base + i + 1 mod 65536 for a set bit i, and  *)
(* by nothing else.  The n-th retransmission since construction carries    *)
(* n - 1 mod 65536 in header bytes 2-3 and the counter then stands at n;   *)
(* bytes 12-13 are the original sequence number; the original payload      *)
(* follows, so the packet is 2 bytes longer than the original.             *)
(***************************************************************************)
\* the NACK entries <<base, bitmask>> of a feedback packet
NackEntries(data) ==
    [k \in 1..((Len(data) - 12) \div 4) |->
        <<U16(data[4 * k + 9], data[4 * k + 10]),
          U16(data[4 * k + 11], data[4 * k + 12])>>]

Requested(entry) ==
    {entry[1]} \cup {(entry[1] + i + 1) % W16 :
                        i \in {b \in 0..15 : (entry[2] \div 2^b) % 2 = 1}}

\* the packets of the history an entry asks for, oldest first
Present(hist, entry) ==
    LET Asked(h) == U16(h.b2, h.b3) \in Requested(entry)
    IN  SelectSeq(hist, Asked)

RECURSIVE PresentAll(_, _)
PresentAll(hist, entries) ==
    IF entries = <<>> THEN <<>>
    ELSE Present(hist, Head(entries)) \o PresentAll(hist, Tail(entries))

RECURSIVE SumSent(_)
SumSent(log) == IF log = <<>> THEN 0 ELSE Len(Head(log).sent) + SumSent(Tail(log))

C10_NackRetransmitsRequestedPresent ==
    ENABLE_RETRANSMISSION =>
        /\ mRTPRetransmissionSeqNo = SumSent(rtcpLog)
        /\ Len(SelectSeq(netLog, IsRetransmissionSend)) = SumSent(rtcpLog)
        /\ \A n \in 1..Len(rtcpLog) :
              LET e == rtcpLog[n]
                  want == PresentAll(e.history, NackEntries(e.data))
              IN  /\ e.rseqBefore = SumSent(SubSeq(rtcpLog, 1, n - 1))
                  /\ Len(e.sent) = Len(want)
                  /\ \A k \in 1..Len(want) :
                        LET p == e.sent[k].pkt
                        IN  /\ IsRetransmissionSend(e.sent[k])
                            /\ e.sent[k].sessionID =
                                   mRTPRetransmissionSessionID
                            /\ U16(p.b2, p.b3) =
                                   (e.rseqBefore + k - 1) % W16
                            /\ U16(p.b12, p.b13) =
                                   U16(want[k].b2, want[k].b3)
                            /\ p.ts = want[k].ts
                            /\ p.size = want[k].size + 2
                            /\ p.marker = want[k].marker

\* a base and two bits of the bitmask found three packets; another NACK
\* asked across the wrap for 65535 and 0 and got both
C10_Witness ==
    /\ ENABLE_RETRANSMISSION
    /\ \E n \in 1..Len(rtcpLog) :
          /\ Len(NackEntries(rtcpLog[n].data)) = 1
          /\ NackEntries(rtcpLog[n].data)[1][2] = 3
          /\ Len(rtcpLog[n].sent) = 3
    /\ \E n \in 1..Len(rtcpLog) :
          /\ NackEntries(rtcpLog[n].data) = <<<<W16 - 1, 1>>>>
          /\ Len(rtcpLog[n].sent) = 2
          /\ rtcpLog[n].rseqBefore > 0

(***************************************************************************)
(* What the owner of the sender is told, and what the sessions reported.   *)
(***************************************************************************)
NumNotified(what) ==
    Cardinality({i \in 1..Len(notifyLog) : notifyLog[i].what = what})

\* a receive-side error of the RTP or the RTP retransmission channel
IsRTPReceiveError(e) ==
    /\ e.what \in {kWhatRTPNotify, kWhatRTPRetransmissionNotify}
    /\ ~e.send

\* this step handled the error report e
ErrorHandled(e) ==
    /\ Len(errLog') = Len(errLog) + 1
    /\ e = errLog'[Len(errLog')]

Handles ==
    <<mRTPSessionID, mRTCPSessionID, mRTPRetransmissionSessionID,
      mRTCPRetransmissionSessionID>>

(***************************************************************************)
(* C6.  In TCP mode, whatever the order of the connect notifications,      *)
(* InitDone has been posted once if the RTP session is connected and the   *)
(* client RTCP port is negative or the RTCP session is connected, and not  *)
(* at all otherwise; a session whose connect notification was handled has  *)
(* its flag set; no CHECK of the connect handler fails.                    *)
(***************************************************************************)
C6_InitDoneOnceWhenConnected ==
    (phase.init /\ mTransportMode = TRANSPORT_TCP) =>
        /\ ~crashed
        /\ NumNotified(kWhatInitDone) =
               IF mRTPConnected /\ (mClientRTCPPort < 0 \/ mRTCPConnected)
               THEN 1 ELSE 0
        /\ \A x \in sessions :
               x.connected =>
                   /\ x.what = kWhatRTPNotify => mRTPConnected
                   /\ x.what = kWhatRTCPNotify => mRTCPConnected

\* RTP and RTCP have both connected and InitDone was posted
C6_Witness ==
    /\ mTransportMode = TRANSPORT_TCP
    /\ mClientRTCPPort >= 0
    /\ mRTPConnected
    /\ mRTCPConnected
    /\ NumNotified(kWhatInitDone) = 1

(***************************************************************************)
(* C7.  The handling of an error report that is not a receive-side error   *)
(* of an RTP channel destroys the reporting session, sets the one handle   *)
(* that held its id to 0 and leaves the others alone, and posts one        *)
(* SessionDead; as many SessionDead were posted as such reports were       *)
(* handled; no session is created after such a session was destroyed.      *)
(***************************************************************************)
C7_ErrorDestroysClearsNotifiesOnce ==
    /\ [][\A e \in {errLog'[i] : i \in 1..Len(errLog')} :
            (ErrorHandled(e) /\ ~IsRTPReceiveError(e)) =>
                /\ \E x \in sessions : x.id = e.sessionID
                /\ sessions' = {x \in sessions : x.id # e.sessionID}
                /\ netLog' = Append(netLog, [op |-> "destroySession",
                                             sessionID |-> e.sessionID])
                /\ Cardinality({k \in 1..4 : Handles[k] = e.sessionID}) = 1
                /\ \A k \in 1..4 :
                       Handles'[k] = IF Handles[k] = e.sessionID
                                     THEN 0 ELSE Handles[k]
                /\ notifyLog' = Append(notifyLog,
                                       [what |-> kWhatSessionDead])]_vars
    /\ [](/\ NumNotified(kWhatSessionDead) =
                Cardinality({i \in 1..Len(errLog) :
                                ~IsRTPReceiveError(errLog[i])})
          /\ \A i, j \in 1..Len(netLog) :
                (/\ i < j
                 /\ netLog[i].op = "destroySession"
                 /\ \E n \in 1..Len(errLog) :
                       /\ ~IsRTPReceiveError(errLog[n])
                       /\ errLog[n].sessionID = netLog[i].sessionID)
                    => netLog[j].op \notin {"createSession", "createFailed"})

\* a receive-side error of RTCP and a send-side error of RTP were handled
C7_Witness ==
    /\ \E i \in 1..Len(errLog) :
          errLog[i].what = kWhatRTCPNotify /\ ~errLog[i].send
    /\ \E i \in 1..Len(errLog) :
          errLog[i].what = kWhatRTPNotify /\ errLog[i].send
    /\ mRTPSessionID = 0
    /\ mRTCPSessionID = 0
    /\ mRTPPort # 0
    /\ NumNotified(kWhatSessionDead) = 2

(***************************************************************************)
(* C8.  The handling of a receive-side error of the RTP channel or of the  *)
(* RTP retransmission channel destroys no session, clears no handle and    *)
(* posts nothing; the handling of a send-side error of any channel posts   *)
(* SessionDead.                                                            *)
(***************************************************************************)
C8_RTPReceiveErrorIgnoredSendSurfaced ==
    [][\A e \in {errLog'[i] : i \in 1..Len(errLog')} :
          ErrorHandled(e) =>
              /\ IsRTPReceiveError(e) =>
                     /\ sessions' = sessions
                     /\ netLog' = netLog
                     /\ Handles' = Handles
                     /\ notifyLog' = notifyLog
              /\ e.send =>
                     /\ Len(notifyLog') = Len(notifyLog) + 1
                     /\ notifyLog'[Len(notifyLog')].what = kWhatSessionDead
                     /\ SubSeq(notifyLog', 1, Len(notifyLog)) = notifyLog]_vars

\* a receive-side error of the RTP retransmission channel left its session
\* open; send-side errors of an RTCP and of an RTP channel were surfaced
C8_Witness ==
    /\ \E i \in 1..Len(errLog) :
          /\ errLog[i].what = kWhatRTPRetransmissionNotify
          /\ ~errLog[i].send
          /\ errLog[i].sessionID = mRTPRetransmissionSessionID
          /\ \E x \in sessions : x.id = errLog[i].sessionID
    /\ \E i \in 1..Len(errLog) :
          errLog[i].what = kWhatRTCPNotify /\ errLog[i].send
    /\ \E i \in 1..Len(errLog) :
          errLog[i].what = kWhatRTPNotify /\ errLog[i].send
    /\ NumNotified(kWhatSessionDead) = 2

(***************************************************************************)
(* What a received RTCP buffer is, read as a receiver of it would.         *)
(***************************************************************************)
\* the buffer is one generic NACK about this sender and nothing else
IsOneNack(data) ==
    /\ Len(data) >= 12
    /\ data[1] = 129
    /\ data[2] = 205
    /\ 4 * U16(data[3], data[4]) + 4 = Len(data)
    /\ <<U16(data[9], data[10]), U16(data[11], data[12])>> = kSourceID

HistorySeqNos(hist) == {U16(hist[i].b2, hist[i].b3) : i \in 1..Len(hist)}

RetransmittedSeqNos(sent) ==
    {U16(sent[i].pkt.b12, sent[i].pkt.b13) : i \in 1..Len(sent)}

(***************************************************************************)
(* C11.  With retransmission enabled, a NACK that asks for a sequence      *)
(* number that is not in the history gets no retransmission for it and     *)
(* the retransmission counter does not move for it: the counter advances   *)
(* by the number of requested packets that are in the history, over all    *)
(* entries of the NACK; parseTSFB and parseRTCP return OK.                 *)
(***************************************************************************)
C11_AbsentSeqNoIsNotAnError ==
    ENABLE_RETRANSMISSION =>
        /\ mRTPRetransmissionSeqNo = SumSent(rtcpLog)
        /\ \A n \in 1..Len(rtcpLog) :
              LET e == rtcpLog[n]
                  entries == NackEntries(e.data)
              IN  IsOneNack(e.data) =>
                      /\ e.err = OK
                      /\ Len(e.visited) = 1
                      /\ e.visited[1].tsfb = OK
                      /\ RetransmittedSeqNos(e.sent)
                             \subseteq HistorySeqNos(e.history)
                      /\ \A i \in 1..Len(entries) :
                             \A q \in Requested(entries[i]) :
                                 q \in RetransmittedSeqNos(e.sent)
                                     <=> q \in HistorySeqNos(e.history)
                      /\ Len(e.sent) =
                             Len(PresentAll(e.history, entries))

\* packet 0 has been evicted from a full history; a NACK whose first entry
\* asks for 0 and whose second asks for 1 got packet 1 alone
C11_Witness ==
    /\ ENABLE_RETRANSMISSION
    /\ \E n \in 1..Len(rtcpLog) :
          LET e == rtcpLog[n]
          IN  /\ e.data = NackOfTwo
              /\ Len(e.history) = kMaxHistoryLength
              /\ 0 \notin HistorySeqNos(e.history)
              /\ RetransmittedSeqNos(e.sent) = {1}
              /\ Len(e.sent) = 1
              /\ e.err = OK
    /\ mRTPRetransmissionSeqNo = 1

(***************************************************************************)
(* C12.  As claimed: parseRTCP on any buffer shorter than 8 bytes returns  *)
(* ERROR_MALFORMED, dispatches no sub-packet, sends nothing and leaves the *)
(* retransmission counter alone.                                           *)
(***************************************************************************)
C12_ShortBufferIsMalformed ==
    /\ \A n \in 1..Len(rtcpLog) :
          Len(rtcpLog[n].data) < 8 =>
              /\ rtcpLog[n].err = ERROR_MALFORMED
              /\ rtcpLog[n].visited = <<>>
              /\ rtcpLog[n].sent = <<>>
    /\ (\A n \in 1..Len(rtcpLog) : Len(rtcpLog[n].data) < 8) =>
          mRTPRetransmissionSeqNo = 0

(***************************************************************************)
(* C13.  A buffer that is the concatenation of well-formed SR, SDES and    *)
(* unknown-type packets is walked packet by packet: the k-th packet is     *)
(* dispatched k-th, at the offset where it starts, with a length of        *)
(* 4 * (its length word) + 4, which is the packet's size; parseRTCP        *)
(* returns OK and nothing is sent.                                         *)
(***************************************************************************)
C13_CompoundWalkedInOrder ==
    \A n \in 1..Len(rtcpLog) :
        \A parts \in WellFormedSeqs :
            rtcpLog[n].data = Concat(parts) =>
                /\ rtcpLog[n].err = OK
                /\ rtcpLog[n].sent = <<>>
                /\ Len(rtcpLog[n].visited) = Len(parts)
                /\ \A k \in 1..Len(parts) :
                       LET v == rtcpLog[n].visited[k]
                       IN  /\ v.off = Len(Concat(SubSeq(parts, 1, k - 1)))
                           /\ v.type = parts[k][2]
                           /\ v.headerLength =
                                  4 * U16(parts[k][3], parts[k][4]) + 4
                           /\ v.headerLength = Len(parts[k])

\* an unknown type first, then SR and SDES: all three were dispatched
C13_Witness ==
    \E n \in 1..Len(rtcpLog) :
        /\ rtcpLog[n].data = UnknownPacket \o SRPacket \o SDESPacket
        /\ Len(rtcpLog[n].visited) = 3
        /\ rtcpLog[n].visited[1].type = 210
        /\ rtcpLog[n].visited[2].type = 200
        /\ rtcpLog[n].visited[3].type = 202
        /\ rtcpLog[n].err = OK

(***************************************************************************)
(* C14.  As claimed: with retransmission enabled, a NACK that follows, in  *)
(* the same buffer, a packet of an unsupported RTCP version or a feedback  *)
(* packet of an unsupported format is still processed: the packets it      *)
(* asks for that are in the history are retransmitted.                     *)
(***************************************************************************)
C14_UnsupportedPacketSkipped ==
    ENABLE_RETRANSMISSION =>
        \A n \in 1..Len(rtcpLog) :
            \A first \in {BadVersionPacket, BadFormatTSFB} :
                rtcpLog[n].data = first \o Nack(<<<<1, 0>>>>) =>
                    RetransmittedSeqNos(rtcpLog[n].sent) =
                        {1} \cap HistorySeqNos(rtcpLog[n].history)

(***************************************************************************)
(* C15.  As claimed: a buffer for which parseRTCP returns ERROR_MALFORMED  *)
(* has caused no retransmission and has left the retransmission counter    *)
(* unchanged, also when a valid NACK precedes the malformed packet.        *)
(***************************************************************************)
C15_MalformedBufferSendsNothing ==
    /\ \A n \in 1..Len(rtcpLog) :
          rtcpLog[n].err = ERROR_MALFORMED => rtcpLog[n].sent = <<>>
    /\ (\A n \in 1..Len(rtcpLog) : rtcpLog[n].err = ERROR_MALFORMED) =>
          mRTPRetransmissionSeqNo = 0

\* the kWhatSendSR messages that were posted and not yet handled
NumSRMessages ==
    Cardinality({i \in 1..Len(eventQueue) :
                    eventQueue[i].what = "kWhatSendSR"})

(***************************************************************************)
(* C16.  At every moment at most one kWhatSendSR message is outstanding    *)
(* and mSendSRPending is true exactly when one is; a call of               *)
(* scheduleSendSR made while mSendSRPending is set or while                *)
(* mRTCPSessionID is 0 posts nothing and leaves the flag as it was, and    *)
(* any other call posts exactly one message and sets the flag.             *)
(***************************************************************************)
C16_ScheduleSendSRIdempotent ==
    /\ [](/\ NumSRMessages <= 1
          /\ mSendSRPending <=> (NumSRMessages = 1))
    /\ [][(/\ srLog' # srLog
           /\ srLog'[Len(srLog')].op = "scheduleSendSR") =>
              IF mSendSRPending \/ mRTCPSessionID = 0
              THEN UNCHANGED <<eventQueue, mSendSRPending>>
              ELSE /\ mSendSRPending'
                   /\ Len(eventQueue') = Len(eventQueue) + 1]_vars

\* a report was sent and its timer re-armed, scheduleSendSR was called
\* while a report was pending and again after an error cleared the handle
C16_Witness ==
    /\ mNumSRsSent >= 1
    /\ \E i \in 1..Len(srLog) :
          /\ srLog[i].op = "scheduleSendSR"
          /\ srLog[i].pending
          /\ srLog[i].rtcpSessionID # 0
    /\ \E i \in 1..Len(srLog) :
          /\ srLog[i].op = "scheduleSendSR"
          /\ srLog[i].rtcpSessionID = 0
          /\ \E j \in 1..(i - 1) : srLog[j].op = "kWhatSendSR"

\* the requests of kind op in a log of the session manager
IsCreateAttempt(e) == e.op \in {"createSession", "createFailed"}

\* when a bind has failed, every session created before it is destroyed
\* before the next bind is attempted
RolledBack(log) ==
    \A i, j \in 1..Len(log) :
        (i < j /\ log[i].op = "createSession" /\ log[j].op = "createFailed")
            => \E k \in (i + 1)..Len(log) :
                  /\ log[k].op = "destroySession"
                  /\ log[k].sessionID = log[i].sessionID
                  /\ \A m \in (j + 1)..(k - 1) : ~IsCreateAttempt(log[m])

\* every destroy request names a session that was created before it and
\* not destroyed since
OnlyCreatedDestroyed(log) ==
    \A k \in 1..Len(log) :
        log[k].op = "destroySession" =>
            \E i \in 1..(k - 1) :
                /\ log[i].op = "createSession"
                /\ log[i].sessionID = log[k].sessionID
                /\ \A m \in (i + 1)..(k - 1) :
                       ~(/\ log[m].op = "destroySession"
                         /\ log[m].sessionID = log[k].sessionID)

\* the open sessions are those of the handles, on the ports that go with
\* the port getRTPPort returns
OpenAreHandles(open, handles, rtpPort) ==
    /\ {x.id : x \in open} = {handles[k] : k \in 1..4} \ {0}
    /\ \A x \in open :
          /\ x.id = handles[1] => x.localPort = rtpPort
          /\ x.id = handles[2] => x.localPort = rtpPort + 1
          /\ x.id = handles[3] =>
                 x.localPort = rtpPort + kRetransmissionPortOffset
          /\ x.id = handles[4] =>
                 x.localPort = rtpPort + 1 + kRetransmissionPortOffset

\* a step of init that scans the ports and returns
InitScanStep ==
    /\ ~phase.init /\ phase'.init
    /\ mTransportMode' # TRANSPORT_TCP_INTERLEAVED

(***************************************************************************)
(* C17.  As claimed: when init in UDP or TCP mode has run, every bind      *)
(* that failed was followed by the destruction of every session created    *)
(* before it, ahead of the next bind; every destroy request names a        *)
(* session that was created and is still open; and if init returned OK     *)
(* the open sessions are exactly those of the four handles, on the ports   *)
(* that belong to mRTPPort.                                                *)
(***************************************************************************)
C17_InitRollsBackFailedIteration ==
    [][InitScanStep =>
          /\ RolledBack(netLog')
          /\ OnlyCreatedDestroyed(netLog')
          /\ ~crashed' => OpenAreHandles(sessions', Handles', mRTPPort')]_vars

\* some bind of the port scan has succeeded
SomeBindSucceeded ==
    \E i \in 1..Len(netLog) : netLog[i].op = "createSession"

(***************************************************************************)
(* C18.  As claimed: a port scan of init in which no bind succeeds ends:   *)
(* init returns UNKNOWN_ERROR and no session is open.                      *)
(***************************************************************************)
C18_InitGivesUpWhenNoPortBinds ==
    phase.scanning ~>
        \/ SomeBindSucceeded
        \/ /\ ~phase.scanning
           /\ phase.initErr = UNKNOWN_ERROR
           /\ sessions = {}

\* the places of log where session sessionID is asked to be destroyed
DestroysOf(log, sessionID) ==
    {k \in 1..Len(log) : /\ log[k].op = "destroySession"
                         /\ log[k].sessionID = sessionID}

CreatedSessions(log) ==
    {log[i].sessionID : i \in {k \in 1..Len(log) :
                                  log[k].op = "createSession"}}

(***************************************************************************)
(* C19.  The destructor asks for the destruction of exactly the sessions   *)
(* that are open when it runs, each once, and leaves none open; after it,  *)
(* every session that init or finishInit created has been destroyed; and   *)
(* at no time was a session destroyed twice.                               *)
(***************************************************************************)
C19_TeardownLeavesNoSession ==
    /\ [][(~phase.destroyed /\ phase'.destroyed) =>
              /\ sessions' = {}
              /\ Len(netLog') = Len(netLog) + Cardinality(sessions)
              /\ \A x \in sessions :
                     \E k \in (Len(netLog) + 1)..Len(netLog') :
                         /\ netLog'[k].op = "destroySession"
                         /\ netLog'[k].sessionID = x.id]_vars
    /\ [](/\ phase.destroyed =>
                \A id \in CreatedSessions(netLog) :
                    DestroysOf(netLog, id) # {}
          /\ \A id \in CreatedSessions(netLog) :
                Cardinality(DestroysOf(netLog, id)) <= 1)

\* the sender was torn down after a bind of init had failed and been rolled
\* back, after an error had destroyed one session, with others still open
C19_Witness ==
    /\ phase.destroyed
    /\ \E i \in 1..Len(netLog) : netLog[i].op = "createFailed"
    /\ \E i \in 1..Len(errLog) :
          /\ ~IsIgnoredError(errLog[i].what, errLog[i].send)
          /\ DestroysOf(netLog, errLog[i].sessionID) # {}
    /\ netLog[Len(netLog)].op = "destroySession"
    /\ \A i \in 1..Len(errLog) :
          netLog[Len(netLog)].sessionID # errLog[i].sessionID

\* the appendTSData calls so far that had to flush
NumFlushes ==
    Cardinality({i \in 1..Len(flushLog) :
                    \/ flushLog[i].flush
                    \/ flushLog[i].sizeAppended = TSQueueCapacity})

(***************************************************************************)
(* C20.  Once init was called with TRANSPORT_TCP_INTERLEAVED, no session   *)
(* is open, the four session handles are 0, the network session manager    *)
(* has received no request at all (no create, no send), and the            *)
(* notifications of kind BinaryData are, one per flush and in the order    *)
(* of the flushes, the flushed RTP packets, each with the channel that     *)
(* init was given as clientRtp.                                            *)
(***************************************************************************)
C20_InterleavedUsesNoSession ==
    (phase.init /\ mTransportMode = TRANSPORT_TCP_INTERLEAVED) =>
        /\ sessions = {}
        /\ \A k \in 1..4 : Handles[k] = 0
        /\ netLog = <<>>
        /\ LET datas == SelectSeq(notifyLog, IsBinaryData)
           IN  /\ Len(datas) = NumFlushes
               /\ Len(datas) = mNumRTPSent
               /\ \A i \in 1..Len(datas) :
                      /\ datas[i].channel = ClientRtp
                      /\ datas[i].data.fmt = "RTP"
                      /\ datas[i].data.b2 * 256 + datas[i].data.b3 = i - 1
                      /\ datas[i].data.ts # <<>>

\* in interleaved mode a batch of more than one RTP packet was flushed
C20_Witness ==
    /\ phase.init /\ mTransportMode = TRANSPORT_TCP_INTERLEAVED
    /\ Len(SelectSeq(notifyLog, IsBinaryData)) >= 3
    /\ \E i \in 1..Len(flushLog) :
          ~flushLog[i].flush /\ flushLog[i].sizeAppended = TSQueueCapacity

\* the step is the handling of a kWhatSendSR message
SRTimerFires ==
    /\ srLog' # srLog
    /\ srLog'[Len(srLog')].op = "kWhatSendSR"

\* the one kWhatSendSR message of a queue
SRMessage(queue) ==
    CHOOSE m \in {queue[i] : i \in 1..Len(queue)} : m.what = "kWhatSendSR"

(***************************************************************************)
(* C21.  When a kWhatSendSR message is handled with mRTCPSessionID = 0,    *)
(* nothing is sent or notified, no message is posted and the flag is       *)
(* cleared; after that no kWhatSendSR message is ever handled again.       *)
(* When it is handled with a nonzero handle, exactly one send request is   *)
(* made, on the RTCP session, for a buffer made of one SR packet followed  *)
(* by one SDES packet, mNumSRsSent grows by one and exactly one            *)
(* kWhatSendSR message is posted, due kSendSRIntervalUs later.  And as     *)
(* long as the handle stays nonzero, a pending report that falls due       *)
(* within the clock's range is sent.                                       *)
(***************************************************************************)
C21_ReportChainFollowsRTCPHandle ==
    /\ [][SRTimerFires =>
              IF mRTCPSessionID = 0
              THEN /\ UNCHANGED <<netLog, notifyLog, mNumSRsSent>>
                   /\ ~mSendSRPending'
                   /\ eventQueue' = Tail(eventQueue)
                   /\ NumSRMessages' = 0
              ELSE /\ netLog' = Append(netLog,
                                       [op |-> "sendRequest",
                                        sessionID |-> mRTCPSessionID,
                                        pkt |-> SRBuffer])
                   /\ Len(SRBuffer.parts) = 2
                   /\ SRBuffer.parts[1].pt = 200
                   /\ SRBuffer.parts[2].pt = 202
                   /\ UNCHANGED notifyLog
                   /\ mNumSRsSent' = mNumSRsSent + 1
                   /\ mSendSRPending'
                   /\ NumSRMessages' = 1
                   /\ Len(eventQueue') = Len(eventQueue)
                   /\ SRMessage(eventQueue').whenUs =
                          nowUs + kSendSRIntervalUs]_vars
    /\ [](\A i, j \in 1..Len(srLog) :
             (/\ i < j
              /\ srLog[i].op = "kWhatSendSR"
              /\ srLog[i].rtcpSessionID = 0)
                 => srLog[j].op # "kWhatSendSR")
    /\ \A n \in 0..MaxNowUs :
          (/\ mSendSRPending /\ mRTCPSessionID # 0
           /\ mNumSRsSent = n
           /\ NumSRMessages = 1
           /\ SRMessage(eventQueue).whenUs <= MaxNowUs)
              ~> (mNumSRsSent = n + 1 \/ mRTCPSessionID = 0)

\* a report was sent and the timer armed again, then an error cleared the
\* RTCP handle and the timer fired once more
C21_Witness ==
    /\ mNumSRsSent >= 1
    /\ mRTCPSessionID = 0
    /\ ~mSendSRPending
    /\ srLog # <<>>
    /\ srLog[Len(srLog)].op = "kWhatSendSR"
    /\ srLog[Len(srLog)].rtcpSessionID = 0

\* the format of the feedback packet at offset off of data: data[0] & 0x1f
FormatAt(data, off) == data[off + 1] % 32

\* the source id in bytes 8..11 of the packet at offset off of data
SourceAt(data, off) ==
    <<U16(data[off + 9], data[off + 10]), U16(data[off + 11], data[off + 12])>>

\* parseTSFB was called for the sub-packet and turned it down
IsRejectedTSFB(v) == v.tsfb \in {ERROR_UNSUPPORTED, ERROR_MALFORMED}

(***************************************************************************)
(* C22.  parseTSFB returns ERROR_UNSUPPORTED for a feedback packet whose   *)
(* format is not 1, and ERROR_MALFORMED for one of format 1 whose source   *)
(* id (bytes 8..11) is not kSourceID; the handling of a datagram in which  *)
(* every feedback packet was turned down in one of these ways sends        *)
(* nothing and leaves mRTPRetransmissionSeqNo and the history as they      *)
(* were.                                                                   *)
(***************************************************************************)
C22_RejectedFeedbackChangesNothing ==
    /\ [](\A n \in 1..Len(rtcpLog) :
             \A k \in 1..Len(rtcpLog[n].visited) :
                 LET v == rtcpLog[n].visited[k]
                     data == rtcpLog[n].data
                 IN  v.tsfb # "none" =>
                        /\ FormatAt(data, v.off) # 1
                               => v.tsfb = ERROR_UNSUPPORTED
                        /\ (/\ FormatAt(data, v.off) = 1
                            /\ v.headerLength >= 12
                            /\ SourceAt(data, v.off) # kSourceID)
                               => v.tsfb = ERROR_MALFORMED)
    /\ [][(/\ rtcpLog' # rtcpLog
           /\ \A k \in 1..Len(rtcpLog'[Len(rtcpLog')].visited) :
                  LET v == rtcpLog'[Len(rtcpLog')].visited[k]
                  IN  v.type = 205 => IsRejectedTSFB(v))
              => /\ rtcpLog'[Len(rtcpLog')].sent = <<>>
                 /\ UNCHANGED <<netLog, mRTPRetransmissionSeqNo, mHistory,
                                mHistoryLength>>]_vars

\* a datagram held a packet of format 2 and a NACK of another source that
\* asked for a packet the history had
C22_Witness ==
    \E n \in 1..Len(rtcpLog) :
        LET e == rtcpLog[n]
        IN  /\ e.data = BadFormatTSFB \o OtherSourceNack
            /\ Len(e.visited) = 2
            /\ e.visited[1].tsfb = ERROR_UNSUPPORTED
            /\ e.visited[2].tsfb = ERROR_MALFORMED
            /\ 0 \in HistorySeqNos(e.history)
            /\ e.sent = <<>>

(***************************************************************************)
(* C23.  As claimed: no InitDone notification is posted after a            *)
(* SessionDead notification.                                               *)
(***************************************************************************)
C23_NoInitDoneAfterSessionDead ==
    \A i, j \in 1..Len(notifyLog) :
        (i < j /\ notifyLog[i].what = kWhatSessionDead)
            => notifyLog[j].what # kWhatInitDone

\* the session of request k of log was created before it and not destroyed
\* since
SentOnOpenSession(log, k) ==
    \E i \in 1..(k - 1) :
        /\ log[i].op = "createSession"
        /\ log[i].sessionID = log[k].sessionID
        /\ \A m \in (i + 1)..(k - 1) :
               ~(/\ log[m].op = "destroySession"
                 /\ log[m].sessionID = log[k].sessionID)

(***************************************************************************)
(* C24.  As claimed: every send request made in UDP or TCP mode names a    *)
(* handle other than 0, that of a session open at the time.                *)
(***************************************************************************)
C24_NoSendOnHandleZero ==
    \A k \in 1..Len(netLog) :
        netLog[k].op = "sendRequest" =>
            /\ netLog[k].sessionID # 0
            /\ SentOnOpenSession(netLog, k)

(***************************************************************************)
(* C25.  As claimed: every byte parseTSFB reads lies inside the sub-packet *)
(* that parseRTCP handed to it, below its declared length, and inside the  *)
(* received buffer.                                                        *)
(***************************************************************************)
C25_ParseTSFBReadsInsideSubPacket ==
    \A n \in 1..Len(rtcpLog) :
        \A k \in 1..Len(rtcpLog[n].visited) :
            LET v == rtcpLog[n].visited[k]
            IN  \A o \in v.reads :
                    /\ v.off <= o
                    /\ o < v.off + v.headerLength
                    /\ o < Len(rtcpLog[n].data)


=============================================================================
